---------------------------- MODULE Spec2Model ----------------------------
(***************************************************************************)
(* A model of the OTLP logs decoders of otel-arrow-views:                  *)
(*   - the wire cursor (varint, length-delimited, fixed32/64, field scan)  *)
(*     of src/src/otlp_bytes.rs, src/src/otlp_bytes_lazy.rs and            *)
(*     src/src/Untitled-1.rs,                                              *)
(*   - the reusable eager tree of src/src/otlp_bytes.rs,                   *)
(*   - the lazy views of src/src/otlp_bytes_lazy.rs,                       *)
(*   - the baseline object tree and the view traits of                     *)
(*     src/src/prost_structs.rs and src/src/main.rs.                       *)
(*                                                                         *)
(* Representation.                                                         *)
(*   byte    a number in 0..255.                                           *)
(*   slice   a Rust &[u8]: [b |-> the bytes of the root buffer,            *)
(*           lo |-> first offset, hi |-> offset past the last]; positions  *)
(*           handed to the cursor are relative to lo, as in the code.      *)
(*   u64     ten 7-bit groups, least significant first (the tenth holds    *)
(*           bit 63 only): the value is the sum of g[k] * 2^(7(k-1)).      *)
(*           All 64 bits are kept; no arithmetic is done on the whole.     *)
(*   fixed   a fixed32/fixed64 is kept as its 4 or 8 little-endian bytes.  *)
(*   usize   64 bits wide (x86_64/aarch64 targets).                        *)
(***************************************************************************)
EXTENDS Integers, Sequences, FiniteSets, TLC

VARIABLES
    buf,      \* the byte buffer handed to ProtobufParser::new or to parse
    pos,      \* cursor level: the position argument
    target,   \* cursor level: the tag looked for
    out,      \* what the last operation returned
    phase,    \* position of the driver
    logs,     \* the reusable otlp_bytes::LogsData instance
    gen,      \* the number of LogsData::parse calls made on logs
    tree,     \* the baseline LogsData the buffer was encoded from, if any
    cache,    \* the OnceCell<FieldCache> of the LogRecordParser over buf
    scans,    \* the number of times the closure of get_cache has run
    calls     \* the number of accessor calls made on the LogRecordParser

vars == <<buf, pos, target, out, phase, logs, gen, tree, cache, scans, calls>>

-----------------------------------------------------------------------------
(* Bits and bytes *)

\* the element of a singleton set; The({e(x) : x \in {v}}) is e(v), a "let x = v"
\* whose v is evaluated once
The(S) == CHOOSE e \in S : TRUE

\* byte & 0x7F
Low7(byte) == byte % 128

\* byte & 0x80 == 0
NoCont(byte) == byte < 128

\* bitwise or of two numbers below 2^n
RECURSIVE BitOr(_, _, _)
BitOr(a, b, n) ==
    IF n = 0 THEN 0
    ELSE (IF (a % 2 = 1) \/ (b % 2 = 1) THEN 1 ELSE 0)
         + 2 * BitOr(a \div 2, b \div 2, n - 1)

Zero64 == <<0, 0, 0, 0, 0, 0, 0, 0, 0, 0>>

\* (byte as u64) for a byte below 128
U64OfByte(byte) == [Zero64 EXCEPT ![1] = byte]

\* result | (((byte & 0x7F) as u64) << shift), shift a multiple of 7 below 64.
\* A shift of 63 keeps bit 0 of the group only: the other six bits leave the
\* 64-bit word.
OrShifted(result, byte, shift) ==
    LET k == (shift \div 7) + 1
        g == IF shift = 63 THEN Low7(byte) % 2 ELSE Low7(byte)
    IN  [result EXCEPT ![k] = BitOr(result[k], g, 7)]

-----------------------------------------------------------------------------
(* Slices *)

Slice(bytes, lo, hi) == [b |-> bytes, lo |-> lo, hi |-> hi]

Whole(bytes) == Slice(bytes, 0, Len(bytes))

EmptySlice == Slice(<<>>, 0, 0)

\* data.len()
DLen(data) == data.hi - data.lo

\* data[i]
At(data, i) == data.b[data.lo + i + 1]

\* the bytes a slice denotes
Bytes(data) == SubSeq(data.b, data.lo + 1, data.hi)

-----------------------------------------------------------------------------
(* Option<(u64, usize)> *)

NoVarint == [some |-> FALSE, val |-> Zero64, pos |-> 0]

SomeVarint(v, p) == [some |-> TRUE, val |-> v, pos |-> p]

-----------------------------------------------------------------------------
(* ProtobufParser::parse_varint, three versions *)

\* The shift loop shared by the three versions:
\*   while pos < self.data.len() && shift < 64 { ... shift += 7; }  None
RECURSIVE varint_loop(_, _, _, _)
varint_loop(data, p, shift, result) ==
    IF p < DLen(data) /\ shift < 64
    THEN LET byte == At(data, p)
         IN  The({ IF NoCont(byte) THEN SomeVarint(r, p + 1)
                   ELSE varint_loop(data, p + 1, shift + 7, r)
                   : r \in {OrShifted(result, byte, shift)} })
    ELSE NoVarint

\* src/src/Untitled-1.rs: the plain loop, result = 0, shift = 0
plain_parse_varint(data, p) == varint_loop(data, p, 0, Zero64)

\* src/src/otlp_bytes_lazy.rs: two bytes unrolled, then the loop from shift 14
lazy_parse_varint(data, p) ==
    IF p >= DLen(data) THEN NoVarint
    ELSE LET b1 == At(data, p)
         IN  IF NoCont(b1) THEN SomeVarint(U64OfByte(Low7(b1)), p + 1)
             ELSE IF p + 1 < DLen(data)
             THEN LET b2 == At(data, p + 1)
                  IN  The({ IF NoCont(b2) THEN SomeVarint(r2, p + 2)
                            ELSE varint_loop(data, p + 2, 14, r2)
                            : r2 \in {OrShifted(U64OfByte(Low7(b1)), b2, 7)} })
             ELSE NoVarint

\* A slip in the unrolled path: the loop resumes at shift 21 instead of 28, so the
\* fifth byte lands on the fourth byte's bits.
parse_varint_shift21(data, p) ==
    IF p >= DLen(data) THEN NoVarint
    ELSE LET b1 == At(data, p)
             b2 == At(data, p + 1)
             b3 == At(data, p + 2)
             b4 == At(data, p + 3)
         IN  IF NoCont(b1) THEN SomeVarint(U64OfByte(b1), p + 1)
             ELSE IF p + 1 >= DLen(data) THEN NoVarint
             ELSE The({
               IF NoCont(b2) THEN SomeVarint(r2, p + 2)
               ELSE IF p + 2 >= DLen(data) THEN NoVarint
               ELSE The({
                 IF NoCont(b3) THEN SomeVarint(r3, p + 3)
                 ELSE IF p + 3 >= DLen(data) THEN NoVarint
                 ELSE The({
                   IF NoCont(b4) THEN SomeVarint(r4, p + 4)
                   ELSE varint_loop(data, p + 4, 21, r4)
                   : r4 \in {OrShifted(r3, b4, 21)} })
                 : r3 \in {OrShifted(r2, b3, 14)} })
               : r2 \in {OrShifted(U64OfByte(Low7(b1)), b2, 7)} })

\* src/src/otlp_bytes.rs: four bytes unrolled, then the loop from shift 28
parse_varint(data, p) ==
    IF p >= DLen(data) THEN NoVarint
    ELSE LET b1 == At(data, p)
             b2 == At(data, p + 1)
             b3 == At(data, p + 2)
             b4 == At(data, p + 3)
         IN  IF NoCont(b1) THEN SomeVarint(U64OfByte(b1), p + 1)
             ELSE IF p + 1 >= DLen(data) THEN NoVarint
             ELSE The({
               IF NoCont(b2) THEN SomeVarint(r2, p + 2)
               ELSE IF p + 2 >= DLen(data) THEN NoVarint
               ELSE The({
                 IF NoCont(b3) THEN SomeVarint(r3, p + 3)
                 ELSE IF p + 3 >= DLen(data) THEN NoVarint
                 ELSE The({
                   IF NoCont(b4) THEN SomeVarint(r4, p + 4)
                   ELSE varint_loop(data, p + 4, 28, r4)
                   : r4 \in {OrShifted(r3, b4, 21)} })
                 : r3 \in {OrShifted(r2, b3, 14)} })
               : r2 \in {OrShifted(U64OfByte(Low7(b1)), b2, 7)} })

-----------------------------------------------------------------------------
(* usize arithmetic on a decoded length *)

\* the u64 is below 2^28
IsSmall(v) == \A k \in 5..10 : v[k] = 0

\* its value, when it is below 2^28
SmallVal(v) == v[1] + 128 * v[2] + 16384 * v[3] + 2097152 * v[4]

\* the u64 is 2^64 - 128 + v[1]: every bit above the low seven is set
IsTop(v) == (\A k \in 2..9 : v[k] = 127) /\ v[10] = 1

\* pos + length as usize, pos below 2^28:
\*   kind "fits": the sum, below 2^29;
\*   kind "huge": a sum of at least 2^28 that does not leave the 64-bit word
\*                (val is not used: the sum is above every buffer length);
\*   kind "wraps": the sum is 2^64 or more; val is the sum mod 2^64.
AddUsize(p, v) ==
    IF IsSmall(v) THEN [kind |-> "fits", val |-> p + SmallVal(v)]
    ELSE IF IsTop(v) /\ v[1] + p >= 128
         THEN [kind |-> "wraps", val |-> v[1] + p - 128]
         ELSE [kind |-> "huge", val |-> 0]

-----------------------------------------------------------------------------
(* ProtobufParser::parse_length_delimited *)

\* Option<(&[u8], usize)>, and the panic the slice expression can raise
NoSpan == [kind |-> "none", bytes |-> EmptySlice, pos |-> 0]

SomeSpan(s, p) == [kind |-> "some", bytes |-> s, pos |-> p]

PanicSpan == [kind |-> "panic", bytes |-> EmptySlice, pos |-> 0]

\* &self.data[pos..end]
SubSlice(data, p, e) == Slice(data.b, data.lo + p, data.lo + e)

\* A slip: the end is tested against the root buffer, not against this slice.
span_after_root_len(data, v) ==
    The({ IF e.kind = "wraps" THEN PanicSpan
          ELSE IF e.kind = "fits" /\ data.lo + e.val <= Len(data.b)
               THEN SomeSpan(SubSlice(data, v.pos, e.val), e.val)
               ELSE NoSpan
          : e \in {AddUsize(v.pos, v.val)} })

\* let end = pos + length as usize;
\* if end <= self.data.len() { Some((&self.data[pos..end], end)) } else { None }
\* When pos + length leaves the 64-bit word, a build with overflow checks panics
\* at the addition; a build without them wraps to end < pos, passes the test
\* end <= len and panics at the slice expression (its start is past its end).
span_after(data, v) ==
    The({ IF e.kind = "wraps" THEN PanicSpan
          ELSE IF e.kind = "fits" /\ e.val <= DLen(data)
               THEN SomeSpan(SubSlice(data, v.pos, e.val), e.val)
               ELSE NoSpan
          : e \in {AddUsize(v.pos, v.val)} })

\* src/src/otlp_bytes.rs
parse_length_delimited(data, p) ==
    The({ IF ~v.some THEN NoSpan ELSE span_after(data, v)
          : v \in {parse_varint(data, p)} })

\* src/src/otlp_bytes_lazy.rs
lazy_parse_length_delimited(data, p) ==
    The({ IF ~v.some THEN NoSpan ELSE span_after(data, v)
          : v \in {lazy_parse_varint(data, p)} })

-----------------------------------------------------------------------------
(* ProtobufParser::parse_fixed32 / parse_fixed64 *)

NoFixed == [some |-> FALSE, val |-> <<>>, pos |-> 0]

SomeFixed(bytes, p) == [some |-> TRUE, val |-> bytes, pos |-> p]

\* the value is kept as its little-endian bytes
parse_fixed32(data, p) ==
    IF p + 4 <= DLen(data)
    THEN SomeFixed([i \in 1..4 |-> At(data, p + i - 1)], p + 4)
    ELSE NoFixed

parse_fixed64(data, p) ==
    IF p + 8 <= DLen(data)
    THEN SomeFixed([i \in 1..8 |-> At(data, p + i - 1)], p + 8)
    ELSE NoFixed

-----------------------------------------------------------------------------
(* Tags, and the field scans of ProtobufParser *)

\* (tag_and_wire >> 3) as u32.  Bits 3..27 give the tag when bits 28..34 are
\* zero; a tag of 2^25 or more is reported as 2^25: the scans only compare a tag
\* for equality with field numbers of the tag table, all below 16.
TagOf(v) ==
    IF v[5] = 0
    THEN (v[1] \div 8) + 16 * v[2] + 2048 * v[3] + 262144 * v[4]
    ELSE 33554432

\* (tag_and_wire & 0x7) as u8
WireOf(v) == v[1] % 8

\* Vec<(u8, usize)>, or the panic of a parse_length_delimited called by the scan
Found(results) == [panic |-> FALSE, results |-> results]

ScanPanic == [panic |-> TRUE, results |-> <<>>]

\* src/src/otlp_bytes.rs, parse_all_fields: the loop from position p with the
\* matches collected so far
RECURSIVE all_fields_loop(_, _, _, _)
all_fields_loop(data, target_tag, p, results) ==
    IF p < DLen(data)
    THEN The({
      IF ~t.some THEN Found(results)
      ELSE LET p1  == t.pos
               wt  == WireOf(t.val)
               res == IF TagOf(t.val) = target_tag
                      THEN Append(results, <<wt, p1>>)
                      ELSE results
           IN  CASE wt = 0 ->
                        The({ IF v.some
                              THEN all_fields_loop(data, target_tag, v.pos, res)
                              ELSE Found(res)
                              : v \in {parse_varint(data, p1)} })
                 [] wt = 1 ->
                        IF p1 + 8 <= DLen(data)
                        THEN all_fields_loop(data, target_tag, p1 + 8, res)
                        ELSE Found(res)
                 [] wt = 2 ->
                        The({ IF s.kind = "some"
                              THEN all_fields_loop(data, target_tag, s.pos, res)
                              ELSE IF s.kind = "none" THEN Found(res)
                              ELSE ScanPanic
                              : s \in {parse_length_delimited(data, p1)} })
                 [] wt = 5 ->
                        IF p1 + 4 <= DLen(data)
                        THEN all_fields_loop(data, target_tag, p1 + 4, res)
                        ELSE Found(res)
                 [] OTHER -> Found(res)
      : t \in {parse_varint(data, p)} })
    ELSE Found(results)

\* src/src/otlp_bytes.rs, parse_all_fields: results = Vec::new(), pos = 0
\* a scan that stops at its first match
parse_all_fields_first_only(data, target_tag) ==
    The({ IF all.panic \/ all.results = <<>> THEN all
          ELSE [all EXCEPT !.results = << all.results[1] >>]
          : all \in {all_fields_loop(data, target_tag, 0, <<>>)} })

parse_all_fields(data, target_tag) == all_fields_loop(data, target_tag, 0, <<>>)

\* Option<(u8, usize)>, or the panic of the scan
NoField == [kind |-> "none", wire_type |-> 0, pos |-> 0]

SomeField(wt, p) == [kind |-> "some", wire_type |-> wt, pos |-> p]

PanicField == [kind |-> "panic", wire_type |-> 0, pos |-> 0]

\* src/src/otlp_bytes.rs, find_field: parse_all_fields(tag).into_iter().next()
find_field(data, target_tag) ==
    The({ IF all.panic THEN PanicField
          ELSE IF all.results = <<>> THEN NoField
          ELSE SomeField(all.results[1][1], all.results[1][2])
          : all \in {parse_all_fields(data, target_tag)} })

\* src/src/otlp_bytes_lazy.rs, find_field: the loop from position p
RECURSIVE lazy_find_loop(_, _, _)
lazy_find_loop(data, target_tag, p) ==
    IF p < DLen(data)
    THEN The({
      IF ~t.some THEN NoField
      ELSE LET p1 == t.pos
               wt == WireOf(t.val)
           IN  IF TagOf(t.val) = target_tag THEN SomeField(wt, p1)
               ELSE CASE wt = 0 ->
                             The({ IF v.some
                                   THEN lazy_find_loop(data, target_tag, v.pos)
                                   ELSE NoField
                                   : v \in {lazy_parse_varint(data, p1)} })
                      [] wt = 1 ->
                             IF p1 + 8 <= DLen(data)
                             THEN lazy_find_loop(data, target_tag, p1 + 8)
                             ELSE NoField
                      [] wt = 2 ->
                             The({ IF s.kind = "some"
                                   THEN lazy_find_loop(data, target_tag, s.pos)
                                   ELSE IF s.kind = "none" THEN NoField
                                   ELSE PanicField
                                   : s \in {lazy_parse_length_delimited(data, p1)} })
                      [] wt = 5 ->
                             IF p1 + 4 <= DLen(data)
                             THEN lazy_find_loop(data, target_tag, p1 + 4)
                             ELSE NoField
                      [] OTHER -> NoField
      : t \in {lazy_parse_varint(data, p)} })
    ELSE NoField

\* src/src/otlp_bytes_lazy.rs, find_field: pos = 0
lazy_find_field(data, target_tag) == lazy_find_loop(data, target_tag, 0)

-----------------------------------------------------------------------------
(* Option<T> is a sequence of at most one element *)

None == <<>>

Some(x) == <<x>>

IsSome(o) == o # <<>>

-----------------------------------------------------------------------------
(* std::str::from_utf8(bytes).ok() *)

IsContByte(b) == b >= 128 /\ b <= 191

\* the well-formed UTF-8 byte sequences (the table of the Unicode standard,
\* which from_utf8 enforces), from index i of bs on
RECURSIVE Utf8ValidFrom(_, _)
Utf8ValidFrom(bs, i) ==
    LET n     == Len(bs)
        b0    == bs[i]
        c(k)  == i + k <= n /\ IsContByte(bs[i + k])
        in2(lo, hi) == i + 1 <= n /\ bs[i + 1] >= lo /\ bs[i + 1] <= hi
    IN  IF i > n THEN TRUE
        ELSE IF b0 < 128 THEN Utf8ValidFrom(bs, i + 1)
        ELSE IF b0 >= 194 /\ b0 <= 223 THEN c(1) /\ Utf8ValidFrom(bs, i + 2)
        ELSE IF b0 = 224 THEN in2(160, 191) /\ c(2) /\ Utf8ValidFrom(bs, i + 3)
        ELSE IF b0 = 237 THEN in2(128, 159) /\ c(2) /\ Utf8ValidFrom(bs, i + 3)
        ELSE IF b0 >= 225 /\ b0 <= 239 THEN c(1) /\ c(2) /\ Utf8ValidFrom(bs, i + 3)
        ELSE IF b0 = 240 THEN in2(144, 191) /\ c(2) /\ c(3) /\ Utf8ValidFrom(bs, i + 4)
        ELSE IF b0 >= 241 /\ b0 <= 243 THEN c(1) /\ c(2) /\ c(3) /\ Utf8ValidFrom(bs, i + 4)
        ELSE IF b0 = 244 THEN in2(128, 143) /\ c(2) /\ c(3) /\ Utf8ValidFrom(bs, i + 4)
        ELSE FALSE

\* a conversion that accepts every byte sequence as text
from_utf8_unchecked(s) == Some(s)

\* Option<&str>: the slice itself when its bytes are valid UTF-8
from_utf8_ok(s) == IF Utf8ValidFrom(Bytes(s), 1) THEN Some(s) ELSE None

-----------------------------------------------------------------------------
(* The closures of the eager parse functions: a field located by find_field and
   read under the wire type the tag table gives it.  Each returns
   [panic, v]: v the Option the closure yields, panic when the scan panicked. *)

FieldNone == [panic |-> FALSE, v |-> None]

FieldSome(x) == [panic |-> FALSE, v |-> Some(x)]

FieldPanic == [panic |-> TRUE, v |-> None]

\* find_field(tag).and_then(|(wt, pos)| if wt == 2
\*     { parse_length_delimited(pos).map(|(bytes, _)| bytes) } else { None })
span_field(data, tag) ==
    The({ IF f.kind = "panic" THEN FieldPanic
          ELSE IF f.kind = "some" /\ f.wire_type = 2
          THEN The({ IF s.kind = "panic" THEN FieldPanic
                     ELSE IF s.kind = "some" THEN FieldSome(s.bytes)
                     ELSE FieldNone
                     : s \in {parse_length_delimited(data, f.pos)} })
          ELSE FieldNone
          : f \in {find_field(data, tag)} })

\* ... .and_then(|(bytes, _)| std::str::from_utf8(bytes).ok())
str_field(data, tag) ==
    The({ IF f.panic \/ f.v = None THEN f
          ELSE [panic |-> FALSE, v |-> from_utf8_ok(f.v[1])]
          : f \in {span_field(data, tag)} })

\* if wt == 0 { parse_varint(pos).map(|(value, _)| value) } else { None }
varint_field(data, tag) ==
    The({ IF f.kind = "panic" THEN FieldPanic
          ELSE IF f.kind = "some" /\ f.wire_type = 0
          THEN The({ IF v.some THEN FieldSome(v.val) ELSE FieldNone
                     : v \in {parse_varint(data, f.pos)} })
          ELSE FieldNone
          : f \in {find_field(data, tag)} })

\* if wt == 1 { parse_fixed64(pos).map(|(value, _)| value) } else { None }
fixed64_field(data, tag) ==
    The({ IF f.kind = "panic" THEN FieldPanic
          ELSE IF f.kind = "some" /\ f.wire_type = 1
          THEN The({ IF v.some THEN FieldSome(v.val) ELSE FieldNone
                     : v \in {parse_fixed64(data, f.pos)} })
          ELSE FieldNone
          : f \in {find_field(data, tag)} })

\* if wt == 5 { parse_fixed32(pos).map(|(value, _)| value) } else { None }
fixed32_field(data, tag) ==
    The({ IF f.kind = "panic" THEN FieldPanic
          ELSE IF f.kind = "some" /\ f.wire_type = 5
          THEN The({ IF v.some THEN FieldSome(v.val) ELSE FieldNone
                     : v \in {parse_fixed32(data, f.pos)} })
          ELSE FieldNone
          : f \in {find_field(data, tag)} })

\* value as u32, value as i32: the low 32 bits
Low32(v) == [k \in 1..10 |-> IF k <= 4 THEN v[k] ELSE IF k = 5 THEN v[5] % 16 ELSE 0]

\* the eight zero bytes of a fixed64 of value 0
ZeroFixed64 == <<0, 0, 0, 0, 0, 0, 0, 0>>

-----------------------------------------------------------------------------
(* The eager nodes of src/src/otlp_bytes.rs.  A parse returns [panic, ok, node]:
   ok is the bool the function returns and node the node it leaves behind.
   The pooled nodes carry two history fields the program does not have: src,
   the bytes the node was last parsed from, and gen, the number of the
   LogsData::parse call that last wrote it. *)

Parsed(ok, node) == [panic |-> FALSE, ok |-> ok, node |-> node]

ParsePanic == [panic |-> TRUE, ok |-> FALSE, node |-> <<>>]

\* enum AnyValueData: the variant and its payload (s for String and Bytes,
\* n for Bool, Int and Double, items for Array and KvList)
AnyValueData(type, s, n, items) == [type |-> type, s |-> s, n |-> n, items |-> items]

\* AnyValue::new and AnyValue::clear: AnyValueData::String("")
AnyValue_new == [value |-> AnyValueData("String", EmptySlice, <<>>, <<>>)]

AnyValue_of(type, s, n, items) == [value |-> AnyValueData(type, s, n, items)]

\* KeyValue::new and KeyValue::clear
KeyValue_new == [key |-> EmptySlice, value |-> None, src |-> EmptySlice, gen |-> 0]

RECURSIVE AnyValue_parse(_, _)
RECURSIVE KeyValue_parse(_, _)
RECURSIVE array_loop(_, _, _, _, _)
RECURSIVE kvlist_loop(_, _, _, _, _)

\* AnyValue::parse, the loop over parse_all_fields(5): the items that parse
\* are pushed to a fresh vector
array_loop(data, matches, i, array_values, g) ==
    IF i > Len(matches) THEN [panic |-> FALSE, items |-> array_values]
    ELSE IF matches[i][1] = 2
    THEN The({
      IF s.kind = "panic" THEN [panic |-> TRUE, items |-> <<>>]
      ELSE IF s.kind = "some"
      THEN The({ IF r.panic THEN [panic |-> TRUE, items |-> <<>>]
                 ELSE array_loop(data, matches, i + 1,
                          IF r.ok THEN Append(array_values, r.node) ELSE array_values, g)
                 : r \in {AnyValue_parse(s.bytes, g)} })
      ELSE array_loop(data, matches, i + 1, array_values, g)
      : s \in {parse_length_delimited(data, matches[i][2])} })
    ELSE array_loop(data, matches, i + 1, array_values, g)

\* AnyValue::parse, the loop over parse_all_fields(6)
kvlist_loop(data, matches, i, kv_values, g) ==
    IF i > Len(matches) THEN [panic |-> FALSE, items |-> kv_values]
    ELSE IF matches[i][1] = 2
    THEN The({
      IF s.kind = "panic" THEN [panic |-> TRUE, items |-> <<>>]
      ELSE IF s.kind = "some"
      THEN The({ IF r.panic THEN [panic |-> TRUE, items |-> <<>>]
                 ELSE kvlist_loop(data, matches, i + 1,
                          IF r.ok THEN Append(kv_values, r.node) ELSE kv_values, g)
                 : r \in {KeyValue_parse(s.bytes, g)} })
      ELSE kvlist_loop(data, matches, i + 1, kv_values, g)
      : s \in {parse_length_delimited(data, matches[i][2])} })
    ELSE kvlist_loop(data, matches, i + 1, kv_values, g)

\* AnyValue::parse with the test of tag 7 moved to the front of the chain
AnyValue_parse_bytes_first(data, g) ==
    The({
      IF f7.panic THEN ParsePanic
      ELSE IF IsSome(f7.v)
      THEN Parsed(TRUE, AnyValue_of("Bytes", f7.v[1], <<>>, <<>>))
      ELSE The({
        IF f1.panic THEN ParsePanic
        ELSE IF IsSome(f1.v)
        THEN Parsed(TRUE, AnyValue_of("String", f1.v[1], <<>>, <<>>))
        ELSE The({
          IF f2.panic THEN ParsePanic
          ELSE IF IsSome(f2.v)
          THEN Parsed(TRUE, AnyValue_of("Bool", EmptySlice,
                                IF f2.v[1] # Zero64 THEN <<1>> ELSE <<0>>, <<>>))
          ELSE Parsed(FALSE, AnyValue_new)
          : f2 \in {varint_field(data, 2)} })
        : f1 \in {str_field(data, 1)} })
      : f7 \in {span_field(data, 7)} })

\* AnyValue::parse: the chain of "if let Some(..) = .." tests on the tags 1 to
\* 7, in the order of the code; a later field is looked up only when the
\* earlier ones are absent
AnyValue_parse(data, g) ==
    The({
      IF f1.panic THEN ParsePanic
      ELSE IF IsSome(f1.v)
      THEN Parsed(TRUE, AnyValue_of("String", f1.v[1], <<>>, <<>>))
      ELSE The({
        IF f2.panic THEN ParsePanic
        ELSE IF IsSome(f2.v)
        THEN Parsed(TRUE, AnyValue_of("Bool", EmptySlice,
                              IF f2.v[1] # Zero64 THEN <<1>> ELSE <<0>>, <<>>))
        ELSE The({
          IF f3.panic THEN ParsePanic
          ELSE IF IsSome(f3.v)
          THEN Parsed(TRUE, AnyValue_of("Int", EmptySlice, f3.v[1], <<>>))
          ELSE The({
            IF f4.panic THEN ParsePanic
            ELSE IF IsSome(f4.v)
            THEN Parsed(TRUE, AnyValue_of("Double", EmptySlice, f4.v[1], <<>>))
            ELSE The({
              IF f5.kind = "panic" THEN ParsePanic
              ELSE IF f5.kind = "some"
              THEN The({
                IF a5.panic THEN ParsePanic
                ELSE The({ IF l.panic THEN ParsePanic
                           ELSE Parsed(TRUE, AnyValue_of("Array", EmptySlice,
                                                         <<>>, l.items))
                           : l \in {array_loop(data, a5.results, 1, <<>>, g)} })
                : a5 \in {parse_all_fields(data, 5)} })
              ELSE The({
                IF f6.kind = "panic" THEN ParsePanic
                ELSE IF f6.kind = "some"
                THEN The({
                  IF a6.panic THEN ParsePanic
                  ELSE The({ IF l.panic THEN ParsePanic
                             ELSE Parsed(TRUE, AnyValue_of("KvList", EmptySlice,
                                                           <<>>, l.items))
                             : l \in {kvlist_loop(data, a6.results, 1, <<>>, g)} })
                  : a6 \in {parse_all_fields(data, 6)} })
                ELSE The({
                  IF f7.panic THEN ParsePanic
                  ELSE IF IsSome(f7.v)
                  THEN Parsed(TRUE, AnyValue_of("Bytes", f7.v[1], <<>>, <<>>))
                  ELSE Parsed(FALSE, AnyValue_new)
                  : f7 \in {span_field(data, 7)} })
                : f6 \in {find_field(data, 6)} })
              : f5 \in {find_field(data, 5)} })
            : f4 \in {fixed64_field(data, 4)} })
          : f3 \in {varint_field(data, 3)} })
        : f2 \in {varint_field(data, 2)} })
      : f1 \in {str_field(data, 1)} })

\* the closure that builds an Option<AnyValue> from a located field:
\* AnyValue::new(), parse(bytes), Some(any_value) when parse returned true
any_value_field(data, tag, g) ==
    The({ IF f.panic THEN FieldPanic
          ELSE IF f.v = None THEN FieldNone
          ELSE The({ IF r.panic THEN FieldPanic
                     ELSE IF r.ok THEN FieldSome(r.node)
                     ELSE FieldNone
                     : r \in {AnyValue_parse(f.v[1], g)} })
          : f \in {span_field(data, tag)} })

\* KeyValue::parse without the test of the key: true whatever the key is
KeyValue_parse_accepts_empty_key(data, g) ==
    LET clear == [KeyValue_new EXCEPT !.src = data, !.gen = g]
    IN  The({
          IF k.panic THEN ParsePanic
          ELSE LET key == IF IsSome(k.v) THEN k.v[1] ELSE EmptySlice
               IN  The({ IF v.panic THEN ParsePanic
                         ELSE Parsed(TRUE, [clear EXCEPT !.key = key, !.value = v.v])
                         : v \in {any_value_field(data, 2, g)} })
          : k \in {str_field(data, 1)} })

\* KeyValue::parse: false, with the value left None, when the key is absent,
\* not a string, not UTF-8 or empty
KeyValue_parse(data, g) ==
    LET clear == [KeyValue_new EXCEPT !.src = data, !.gen = g]
    IN  The({
          IF k.panic THEN ParsePanic
          ELSE LET key == IF IsSome(k.v) THEN k.v[1] ELSE EmptySlice
               IN  IF DLen(key) = 0 THEN Parsed(FALSE, [clear EXCEPT !.key = key])
                   ELSE The({ IF v.panic THEN ParsePanic
                              ELSE Parsed(TRUE, [clear EXCEPT !.key = key,
                                                              !.value = v.v])
                              : v \in {any_value_field(data, 2, g)} })
          : k \in {str_field(data, 1)} })

\* the pooled loop shared by LogRecord::parse, Resource::parse and
\* InstrumentationScope::parse: the slot at index attributes_used is reused, or
\* a KeyValue::new() is pushed, and the slot counts only when its parse
\* returned true
RECURSIVE attr_loop(_, _, _, _, _, _)
attr_loop(data, matches, i, attributes, attributes_used, g) ==
    IF i > Len(matches)
    THEN [panic |-> FALSE, pool |-> attributes, used |-> attributes_used]
    ELSE IF matches[i][1] = 2
    THEN LET slots == IF attributes_used < Len(attributes) THEN attributes
                      ELSE Append(attributes, KeyValue_new)
         IN  The({
               IF s.kind = "panic" THEN [panic |-> TRUE, pool |-> <<>>, used |-> 0]
               ELSE IF s.kind = "some"
               THEN The({
                 IF r.panic THEN [panic |-> TRUE, pool |-> <<>>, used |-> 0]
                 ELSE attr_loop(data, matches, i + 1,
                          [slots EXCEPT ![attributes_used + 1] = r.node],
                          IF r.ok THEN attributes_used + 1 ELSE attributes_used, g)
                 : r \in {KeyValue_parse(s.bytes, g)} })
               ELSE attr_loop(data, matches, i + 1, attributes, attributes_used, g)
               : s \in {parse_length_delimited(data, matches[i][2])} })
    ELSE attr_loop(data, matches, i + 1, attributes, attributes_used, g)

\* the attributes of a node, from the scan of its tag
parse_attributes(data, tag, attributes, attributes_used, g) ==
    The({ IF all.panic THEN [panic |-> TRUE, pool |-> <<>>, used |-> 0]
          ELSE attr_loop(data, all.results, 1, attributes, attributes_used, g)
          : all \in {parse_all_fields(data, tag)} })

\* .map(|(value, _)| value as u32) on the Option of a varint field
as_u32(f) == IF IsSome(f.v) THEN [f EXCEPT !.v = Some(Low32(f.v[1]))] ELSE f

Resource_new ==
    [attributes |-> <<>>, attributes_used |-> 0, dropped_attributes_count |-> None]

Resource_clear(self) ==
    [self EXCEPT !.attributes_used = 0, !.dropped_attributes_count = None]

Resource_parse(self, data, g) ==
    LET c == Resource_clear(self)
    IN  The({
          IF a.panic \/ d.panic THEN ParsePanic
          ELSE Parsed(TRUE, [c EXCEPT !.attributes = a.pool,
                                      !.attributes_used = a.used,
                                      !.dropped_attributes_count = d.v])
          : a \in {parse_attributes(data, 1, c.attributes, c.attributes_used, g)},
            d \in {as_u32(varint_field(data, 2))} })

InstrumentationScope_new ==
    [name |-> None, version |-> None, attributes |-> <<>>, attributes_used |-> 0,
     dropped_attributes_count |-> None]

InstrumentationScope_clear(self) ==
    [self EXCEPT !.name = None, !.version = None, !.attributes_used = 0,
                 !.dropped_attributes_count = None]

InstrumentationScope_parse(self, data, g) ==
    LET c == InstrumentationScope_clear(self)
    IN  The({
          IF n.panic \/ v.panic \/ a.panic \/ d.panic THEN ParsePanic
          ELSE Parsed(TRUE, [c EXCEPT !.name = n.v, !.version = v.v,
                                      !.attributes = a.pool,
                                      !.attributes_used = a.used,
                                      !.dropped_attributes_count = d.v])
          : n \in {str_field(data, 1)},
            v \in {str_field(data, 2)},
            a \in {parse_attributes(data, 3, c.attributes, c.attributes_used, g)},
            d \in {as_u32(varint_field(data, 4))} })

LogRecord_new ==
    [time_unix_nano |-> None, observed_time_unix_nano |-> ZeroFixed64,
     severity_number |-> Zero64, severity_text |-> None, body |-> None,
     attributes |-> <<>>, attributes_used |-> 0,
     dropped_attributes_count |-> None, flags |-> None, trace_id |-> None,
     span_id |-> None, event_name |-> None, src |-> EmptySlice, gen |-> 0]

LogRecord_clear(self) ==
    [self EXCEPT !.time_unix_nano = None, !.observed_time_unix_nano = ZeroFixed64,
                 !.severity_number = Zero64, !.severity_text = None,
                 !.body = None, !.attributes_used = 0,
                 !.dropped_attributes_count = None, !.flags = None,
                 !.trace_id = None, !.span_id = None, !.event_name = None]

LogRecord_parse(self, data, g) ==
    LET c == LogRecord_clear(self)
    IN  The({
          IF t.panic \/ o.panic \/ sn.panic \/ st.panic \/ b.panic \/ a.panic
             \/ d.panic \/ fl.panic \/ tid.panic \/ sid.panic \/ en.panic
          THEN ParsePanic
          ELSE Parsed(TRUE,
                 [c EXCEPT !.time_unix_nano = t.v,
                           !.observed_time_unix_nano =
                               IF IsSome(o.v) THEN o.v[1] ELSE ZeroFixed64,
                           !.severity_number =
                               IF IsSome(sn.v) THEN sn.v[1] ELSE Zero64,
                           !.severity_text = st.v,
                           !.body = b.v,
                           !.attributes = a.pool,
                           !.attributes_used = a.used,
                           !.dropped_attributes_count = d.v,
                           !.flags = fl.v,
                           !.trace_id = tid.v,
                           !.span_id = sid.v,
                           !.event_name = en.v,
                           !.src = data,
                           !.gen = g])
          : t   \in {fixed64_field(data, 1)},
            o   \in {fixed64_field(data, 11)},
            sn  \in {as_u32(varint_field(data, 2))},
            st  \in {str_field(data, 3)},
            b   \in {any_value_field(data, 5, g)},
            a   \in {parse_attributes(data, 6, c.attributes, c.attributes_used, g)},
            d   \in {as_u32(varint_field(data, 7))},
            fl  \in {fixed32_field(data, 8)},
            tid \in {span_field(data, 9)},
            sid \in {span_field(data, 10)},
            en  \in {str_field(data, 12)} })

\* the closure of ResourceLogs::parse for its resource: Resource::new(),
\* parse(bytes), Some(resource) when parse returned true
resource_field(data, g) ==
    The({ IF f.panic THEN FieldPanic
          ELSE IF f.v = None THEN FieldNone
          ELSE The({ IF r.panic THEN FieldPanic
                     ELSE IF r.ok THEN FieldSome(r.node)
                     ELSE FieldNone
                     : r \in {Resource_parse(Resource_new, f.v[1], g)} })
          : f \in {span_field(data, 1)} })

\* the closure of ScopeLogs::parse for its scope
scope_field(data, g) ==
    The({ IF f.panic THEN FieldPanic
          ELSE IF f.v = None THEN FieldNone
          ELSE The({ IF r.panic THEN FieldPanic
                     ELSE IF r.ok THEN FieldSome(r.node)
                     ELSE FieldNone
                     : r \in {InstrumentationScope_parse(InstrumentationScope_new, f.v[1], g)} })
          : f \in {span_field(data, 1)} })

\* ScopeLogs::parse, the pooled loop over parse_all_fields(2)
RECURSIVE record_loop(_, _, _, _, _, _)
record_loop(data, matches, i, log_records, log_records_used, g) ==
    IF i > Len(matches)
    THEN [panic |-> FALSE, pool |-> log_records, used |-> log_records_used]
    ELSE IF matches[i][1] = 2
    THEN LET slots == IF log_records_used < Len(log_records) THEN log_records
                      ELSE Append(log_records, LogRecord_new)
         IN  The({
               IF s.kind = "panic" THEN [panic |-> TRUE, pool |-> <<>>, used |-> 0]
               ELSE IF s.kind = "some"
               THEN The({
                 IF r.panic THEN [panic |-> TRUE, pool |-> <<>>, used |-> 0]
                 ELSE record_loop(data, matches, i + 1,
                          [slots EXCEPT ![log_records_used + 1] = r.node],
                          IF r.ok THEN log_records_used + 1 ELSE log_records_used, g)
                 : r \in {LogRecord_parse(slots[log_records_used + 1], s.bytes, g)} })
               ELSE record_loop(data, matches, i + 1, log_records, log_records_used, g)
               : s \in {parse_length_delimited(data, matches[i][2])} })
    ELSE record_loop(data, matches, i + 1, log_records, log_records_used, g)

ScopeLogs_new ==
    [scope |-> None, log_records |-> <<>>, log_records_used |-> 0,
     schema_url |-> None, src |-> EmptySlice, gen |-> 0]

ScopeLogs_clear(self) ==
    [self EXCEPT !.scope = None, !.log_records_used = 0, !.schema_url = None]

ScopeLogs_parse(self, data, g) ==
    LET c == ScopeLogs_clear(self)
    IN  The({
          IF f.panic \/ all.panic THEN ParsePanic
          ELSE The({
            IF l.panic \/ u.panic THEN ParsePanic
            ELSE Parsed(TRUE, [c EXCEPT !.scope = f.v,
                                        !.log_records = l.pool,
                                        !.log_records_used = l.used,
                                        !.schema_url = u.v,
                                        !.src = data,
                                        !.gen = g])
            : l \in {record_loop(data, all.results, 1, c.log_records, c.log_records_used, g)},
              u \in {str_field(data, 3)} })
          : f   \in {scope_field(data, g)},
            all \in {parse_all_fields(data, 2)} })

\* ResourceLogs::parse, the pooled loop over parse_all_fields(2)
RECURSIVE scope_loop(_, _, _, _, _, _)
scope_loop(data, matches, i, scope_logs, scope_logs_used, g) ==
    IF i > Len(matches)
    THEN [panic |-> FALSE, pool |-> scope_logs, used |-> scope_logs_used]
    ELSE IF matches[i][1] = 2
    THEN LET slots == IF scope_logs_used < Len(scope_logs) THEN scope_logs
                      ELSE Append(scope_logs, ScopeLogs_new)
         IN  The({
               IF s.kind = "panic" THEN [panic |-> TRUE, pool |-> <<>>, used |-> 0]
               ELSE IF s.kind = "some"
               THEN The({
                 IF r.panic THEN [panic |-> TRUE, pool |-> <<>>, used |-> 0]
                 ELSE scope_loop(data, matches, i + 1,
                          [slots EXCEPT ![scope_logs_used + 1] = r.node],
                          IF r.ok THEN scope_logs_used + 1 ELSE scope_logs_used, g)
                 : r \in {ScopeLogs_parse(slots[scope_logs_used + 1], s.bytes, g)} })
               ELSE scope_loop(data, matches, i + 1, scope_logs, scope_logs_used, g)
               : s \in {parse_length_delimited(data, matches[i][2])} })
    ELSE scope_loop(data, matches, i + 1, scope_logs, scope_logs_used, g)

ResourceLogs_new ==
    [resource |-> None, scope_logs |-> <<>>, scope_logs_used |-> 0,
     schema_url |-> None, src |-> EmptySlice, gen |-> 0]

\* a clear that resets the singular fields only
ResourceLogs_clear_keeps_used(self) ==
    [self EXCEPT !.resource = None, !.schema_url = None]

ResourceLogs_clear(self) ==
    [self EXCEPT !.resource = None, !.scope_logs_used = 0, !.schema_url = None]

ResourceLogs_parse(self, data, g) ==
    LET c == ResourceLogs_clear(self)
    IN  The({
          IF f.panic \/ all.panic THEN ParsePanic
          ELSE The({
            IF l.panic \/ u.panic THEN ParsePanic
            ELSE Parsed(TRUE, [c EXCEPT !.resource = f.v,
                                        !.scope_logs = l.pool,
                                        !.scope_logs_used = l.used,
                                        !.schema_url = u.v,
                                        !.src = data,
                                        !.gen = g])
            : l \in {scope_loop(data, all.results, 1, c.scope_logs, c.scope_logs_used, g)},
              u \in {str_field(data, 3)} })
          : f   \in {resource_field(data, g)},
            all \in {parse_all_fields(data, 2)} })

LogsData_new == [resource_logs |-> <<>>, used_count |-> 0]

\* a clear that leaves the logical length as it was
LogsData_clear_keeps_used(self) == self

\* a clear that frees the pool
LogsData_clear_frees(self) == [self EXCEPT !.resource_logs = <<>>, !.used_count = 0]

\* LogsData::clear: only the logical length is reset
LogsData_clear(self) == [self EXCEPT !.used_count = 0]

\* LogsData::parse, the while loop from position p.  A field that cannot be
\* skipped moves pos to data.len() (unwrap_or) or breaks; both end the loop.
RECURSIVE logs_loop(_, _, _, _, _)
logs_loop(data, p, resource_logs, used_count, g) ==
    LET done == [panic |-> FALSE, pool |-> resource_logs, used |-> used_count]
        boom == [panic |-> TRUE, pool |-> <<>>, used |-> 0]
        slots == IF used_count < Len(resource_logs) THEN resource_logs
                 ELSE Append(resource_logs, ResourceLogs_new)
    IN  IF p >= DLen(data) THEN done
        ELSE The({
          IF ~t.some THEN done
          ELSE LET tag == TagOf(t.val)
                   wt  == WireOf(t.val)
               IN  IF tag = 1 /\ wt = 2
                   THEN The({
                     IF s.kind = "panic" THEN boom
                     ELSE IF s.kind = "none" THEN done
                     ELSE The({
                       IF r.panic THEN boom
                       ELSE logs_loop(data, s.pos,
                                [slots EXCEPT ![used_count + 1] = r.node],
                                IF r.ok THEN used_count + 1 ELSE used_count, g)
                       : r \in {ResourceLogs_parse(slots[used_count + 1],
                                                   s.bytes, g)} })
                     : s \in {parse_length_delimited(data, t.pos)} })
                   ELSE IF wt = 0
                   THEN The({ logs_loop(data, IF v.some THEN v.pos ELSE DLen(data),
                                        resource_logs, used_count, g)
                              : v \in {parse_varint(data, t.pos)} })
                   ELSE IF wt = 1
                   THEN logs_loop(data, t.pos + 8, resource_logs, used_count, g)
                   ELSE IF wt = 2
                   THEN The({
                     IF s.kind = "panic" THEN boom
                     ELSE logs_loop(data,
                                    IF s.kind = "some" THEN s.pos ELSE DLen(data),
                                    resource_logs, used_count, g)
                     : s \in {parse_length_delimited(data, t.pos)} })
                   ELSE IF wt = 5
                   THEN logs_loop(data, t.pos + 4, resource_logs, used_count, g)
                   ELSE done
          : t \in {parse_varint(data, p)} })

\* a parse that appends every child after the nodes the pool already holds
LogsData_parse_appends(self, data, g) ==
    LET c == LogsData_clear(self)
        held == Len(c.resource_logs)
    IN  The({ IF l.panic THEN ParsePanic
              ELSE Parsed(l.used > held, [c EXCEPT !.resource_logs = l.pool,
                                                   !.used_count = l.used - held])
              : l \in {logs_loop(data, 0, c.resource_logs, held, g)} })

\* LogsData::parse: [panic, ok, node], ok being used_count > 0
LogsData_parse(self, data, g) ==
    LET c == LogsData_clear(self)
    IN  The({ IF l.panic THEN ParsePanic
              ELSE Parsed(l.used > 0, [c EXCEPT !.resource_logs = l.pool,
                                                !.used_count = l.used])
              : l \in {logs_loop(data, 0, c.resource_logs, c.used_count, g)} })

-----------------------------------------------------------------------------
(* The trait implementations of the eager tree, src/src/otlp_bytes.rs.
   A &str result is given by its bytes. *)

\* "service.name"
Str_service_name == <<115, 101, 114, 118, 105, 99, 101, 46, 110, 97, 109, 101>>

\* "unknown-service"
Str_unknown_service ==
    <<117, 110, 107, 110, 111, 119, 110, 45, 115, 101, 114, 118, 105, 99, 101>>

\* "unknown-scope"
Str_unknown_scope == <<117, 110, 107, 110, 111, 119, 110, 45, 115, 99, 111, 112, 101>>

\* "unknown"
Str_unknown == <<117, 110, 107, 110, 111, 119, 110>>

\* "log_record"
Str_log_record == <<108, 111, 103, 95, 114, 101, 99, 111, 114, 100>>

\* UsedSliceIter::new(&self.resource_logs[..self.used_count])
LogsData_resources(self) == SubSeq(self.resource_logs, 1, self.used_count)

\* UsedSliceIter::new(&self.scope_logs[..self.scope_logs_used])
ResourceLogs_scopes(self) == SubSeq(self.scope_logs, 1, self.scope_logs_used)

\* UsedSliceIter::new(&self.log_records[..self.log_records_used])
ScopeLogs_log_records(self) == SubSeq(self.log_records, 1, self.log_records_used)

\* self.attributes[..self.attributes_used].iter()
LogRecord_attributes(self) == SubSeq(self.attributes, 1, self.attributes_used)

\* AnyValue::string_value
string_value(val) ==
    IF val.value.type = "String" THEN Some(Bytes(val.value.s)) ELSE None

\* Resource::get_service_name: the first used attribute whose key is
\* "service.name", then its value, then the value's string
get_service_name(self) ==
    LET used == SubSeq(self.attributes, 1, self.attributes_used)
        hits == {i \in 1..Len(used) : Bytes(used[i].key) = Str_service_name}
        first == CHOOSE i \in hits : \A j \in hits : i <= j
    IN  IF hits = {} THEN None
        ELSE IF used[first].value = None THEN None
        ELSE string_value(used[first].value[1])

\* ResourceLogsView::resource
ResourceLogs_resource(self) ==
    LET n == IF IsSome(self.resource) THEN get_service_name(self.resource[1]) ELSE None
    IN  IF IsSome(n) THEN n[1] ELSE Str_unknown_service

\* ScopeLogsView::scope
ScopeLogs_scope(self) ==
    IF IsSome(self.scope) /\ IsSome(self.scope[1].name)
    THEN Bytes(self.scope[1].name[1])
    ELSE Str_unknown_scope

\* ScopeLogsView::version
ScopeLogs_version(self) ==
    IF IsSome(self.scope) /\ IsSome(self.scope[1].version)
    THEN Some(Bytes(self.scope[1].version[1]))
    ELSE None

\* LogRecordView::name
LogRecord_name(self) == Str_log_record

\* a timestamp that never falls back to the observed time
LogRecord_timestamp_no_fallback(self) == self.time_unix_nano

\* LogRecordView::timestamp
LogRecord_timestamp(self) ==
    IF IsSome(self.time_unix_nano) THEN self.time_unix_nano
    ELSE IF self.observed_time_unix_nano # ZeroFixed64
    THEN Some(self.observed_time_unix_nano)
    ELSE None

\* AttributeView::key
KeyValue_key(self) == Bytes(self.key)

\* AttributeView::value
KeyValue_value(self) == self.value

\* AnyValueView::value_type, through AnyValue::value_type
AnyValue_value_type(self) ==
    CASE self.value.type = "Int" -> "Int64"
      [] self.value.type = "KvList" -> "KeyValueList"
      [] OTHER -> self.value.type

-----------------------------------------------------------------------------
(* Cursor level: the inputs and the driver *)

\* longest run of continuation bytes in a generated buffer
MaxRun == 10

\* longest tail following the run
MaxTail == 2

\* continuation bytes: 0x80 (group 0) and 0xFF (group 127)
RunBytes == {128, 255}

\* bytes of a tail: 0x00, 0x01, 0x02, 0x7F and the continuation byte 0x81
TailBytes == {0, 1, 2, 127, 129}

RECURSIVE Repeat(_, _)
Repeat(byte, n) == IF n = 0 THEN <<>> ELSE <<byte>> \o Repeat(byte, n - 1)

SeqsUpTo(S, n) == UNION {[1..k -> S] : k \in 0..n}

\* a run of one continuation byte, then a tail
CursorInputs ==
    {Repeat(c, n) \o t : c \in RunBytes, n \in 0..MaxRun, t \in SeqsUpTo(TailBytes, MaxTail)}

NoOut == [op |-> "none"]

\* no eager tree and no baseline tree take part at this level
NoTree == logs = LogsData_new /\ gen = 0 /\ tree = None

\* no LogRecordParser has been made
NoView == cache = None /\ scans = 0 /\ calls = 0

CursorInit ==
    /\ buf \in CursorInputs
    /\ pos \in 0..Len(buf)
    /\ target = 0
    /\ out = NoOut
    /\ phase = "input"
    /\ NoTree
    /\ NoView

\* the three parse_varint versions on the same buffer and position
ReadVarint ==
    /\ phase = "input"
    /\ out' = [op    |-> "varint",
               eager |-> parse_varint(Whole(buf), pos),
               lazy  |-> lazy_parse_varint(Whole(buf), pos),
               plain |-> plain_parse_varint(Whole(buf), pos)]
    /\ phase' = "done"
    /\ UNCHANGED <<buf, pos, target, logs, gen, tree, cache, scans, calls>>

\* the two parse_length_delimited versions on the same buffer and position
ReadLengthDelimited ==
    /\ phase = "input"
    /\ out' = [op    |-> "span",
               eager |-> parse_length_delimited(Whole(buf), pos),
               lazy  |-> lazy_parse_length_delimited(Whole(buf), pos)]
    /\ phase' = "done"
    /\ UNCHANGED <<buf, pos, target, logs, gen, tree, cache, scans, calls>>

CursorNext == ReadVarint \/ ReadLengthDelimited

SpecCursor == CursorInit /\ [][CursorNext]_vars

-----------------------------------------------------------------------------
(* Scan level: messages made of field encodings, and the driver *)

\* most field encodings in a generated message
MaxFields == 3

\* Encodings of one field, well-formed and not:
\*   tag 1 varint; tag 2 varint; tag 1 length-delimited of one byte; tag 2
\*   length-delimited, empty; tag 1 fixed32; tag 2 fixed64; tag 1 of wire types
\*   3, 4, 6, 7; tag 3 varint cut after a continuation byte; tag 1
\*   length-delimited declaring 5 bytes; a tag cut after a continuation byte;
\*   tag 2 with a two-byte tag varint; tag 1 length-delimited declaring 2^64-1
\*   bytes.
FieldEncodings ==
    { <<8, 1>>, <<16, 5>>, <<10, 1, 0>>, <<18, 0>>,
      <<13, 1, 2, 3, 4>>, <<17, 1, 2, 3, 4, 5, 6, 7, 8>>,
      <<11>>, <<12>>, <<14>>, <<15>>,
      <<24, 128>>, <<10, 5, 0>>, <<128>>, <<144, 0, 7>>,
      <<10, 255, 255, 255, 255, 255, 255, 255, 255, 255, 1>> }

RECURSIVE Concat(_)
Concat(ss) == IF ss = <<>> THEN <<>> ELSE Head(ss) \o Concat(Tail(ss))

ScanInputs == {Concat(fs) : fs \in SeqsUpTo(FieldEncodings, MaxFields)}

\* tags looked for
ScanTags == {1, 2}

ScanInit ==
    /\ buf \in ScanInputs
    /\ pos = 0
    /\ target \in ScanTags
    /\ out = NoOut
    /\ phase = "input"
    /\ NoTree
    /\ NoView

\* find_all of the eager parser
FindAll ==
    /\ phase = "input"
    /\ out' = [op |-> "find_all", all |-> parse_all_fields(Whole(buf), target)]
    /\ phase' = "done"
    /\ UNCHANGED <<buf, pos, target, logs, gen, tree, cache, scans, calls>>

\* find_first of the eager and of the lazy parser
FindFirst ==
    /\ phase = "input"
    /\ out' = [op    |-> "find_first",
               eager |-> find_field(Whole(buf), target),
               lazy  |-> lazy_find_field(Whole(buf), target)]
    /\ phase' = "done"
    /\ UNCHANGED <<buf, pos, target, logs, gen, tree, cache, scans, calls>>

ScanNext == FindAll \/ FindFirst

SpecScan == ScanInit /\ [][ScanNext]_vars

-----------------------------------------------------------------------------
(* Claims on the cursor *)

\* offset of the first byte at or after p whose 0x80 bit is clear, -1 if none
RECURSIVE FirstTerminator(_, _)
FirstTerminator(bytes, p) ==
    IF p >= Len(bytes) THEN -1
    ELSE IF NoCont(bytes[p + 1]) THEN p
    ELSE FirstTerminator(bytes, p + 1)

\* group k (from 0) of a u64; a u64 has no bits in groups 10 and above
GroupOf(v, k) == IF k <= 9 THEN v[k + 1] ELSE 0

\* the encoding bytes[p..n] carries a bit at position 64 or above
MoreThan64Bits(bytes, p, n) ==
    \E k \in 0..(n - p) :
        \/ k = 9 /\ Low7(bytes[p + k + 1]) >= 2
        \/ k > 9 /\ Low7(bytes[p + k + 1]) # 0

\* what C6 says of one result r of read_varint(pos) on buf
VarintAsClaimed(r) ==
    LET n == FirstTerminator(buf, pos)
    IN  /\ r.some =>
              /\ n # -1
              /\ r.pos = n + 1
              /\ \A k \in 0..9 :
                     GroupOf(r.val, k) = IF k <= n - pos THEN Low7(buf[pos + k + 1]) ELSE 0
        /\ n = -1 => ~r.some
        /\ (n # -1 /\ MoreThan64Bits(buf, pos, n)) => ~r.some

\* C6: read_varint decodes a little-endian base-128 integer: on success the
\* k-th 7-bit group of the value is the low 7 bits of byte pos+k and next_pos is
\* just past the first byte without the 0x80 bit; it fails when the input ends
\* before such a byte, and whenever the encoding carries more than 64
\* significant bits (no silently truncated value).
C6_VarintNeverTruncates ==
    out.op = "varint" => VarintAsClaimed(out.eager) /\ VarintAsClaimed(out.lazy)

\* C7: the eager (four bytes unrolled), lazy (two bytes unrolled) and plain-loop
\* parse_varint return the same (value, next_pos) or the same failure for every
\* byte sequence and start position.
C7_UnrolledVarintsAgree ==
    out.op = "varint" => out.eager = out.plain /\ out.lazy = out.plain

\* C7 witness: a varint of five bytes or more, decoded past the unrolled paths
C7_Witness_FallbackLoopDecodes ==
    /\ out.op = "varint"
    /\ out.eager.some
    /\ out.eager.pos - pos >= 5
    /\ out.eager.val[5] # 0

\* what C8 says of one result r of read_length_delimited(pos), v the length read
SpanAsClaimed(r, v) ==
    v.some =>
        IF IsSmall(v.val) /\ v.pos + SmallVal(v.val) <= Len(buf)
        THEN r = SomeSpan(Slice(buf, v.pos, v.pos + SmallVal(v.val)),
                          v.pos + SmallVal(v.val))
        ELSE r.kind = "none"

\* C8: read_length_delimited reads a varint length L ending at p and returns
\* absent, without panicking, whenever p + L exceeds the buffer length, for every
\* L up to 2^64-1, also when p + L overflows the machine word; otherwise it
\* returns the bytes [p, p+L) and next_pos = p + L.
C8_SpanNeverPanics ==
    out.op = "span" =>
        /\ SpanAsClaimed(out.eager, parse_varint(Whole(buf), pos))
        /\ SpanAsClaimed(out.lazy, lazy_parse_varint(Whole(buf), pos))

-----------------------------------------------------------------------------
(* Claims on the field scans *)

\* The end of the field whose value starts at vp, by wire type, as the wire
\* format defines it; -1 when the field cannot be skipped: wire type 3, 4, 6
\* or 7, a varint or fixed-width value cut short, a length-delimited span
\* declaring more bytes than remain.
FieldEnd(bytes, wt, vp) ==
    LET n == Len(bytes)
        v == plain_parse_varint(Whole(bytes), vp)
    IN  CASE wt = 0 -> IF v.some THEN v.pos ELSE -1
          [] wt = 1 -> IF vp + 8 <= n THEN vp + 8 ELSE -1
          [] wt = 2 -> IF v.some /\ IsSmall(v.val) /\ v.pos + SmallVal(v.val) <= n
                       THEN v.pos + SmallVal(v.val) ELSE -1
          [] wt = 5 -> IF vp + 4 <= n THEN vp + 4 ELSE -1
          [] OTHER -> -1

\* The matches of tag among the fields from offset s on, up to and including the
\* first field that cannot be skipped; a field whose tag is cut short has no tag
\* and matches nothing.
RECURSIVE MatchesUpToUnskippable(_, _, _)
MatchesUpToUnskippable(bytes, tag, s) ==
    IF s >= Len(bytes) THEN <<>>
    ELSE LET t == plain_parse_varint(Whole(bytes), s)
         IN  IF ~t.some THEN <<>>
             ELSE LET wt   == WireOf(t.val)
                      here == IF TagOf(t.val) = tag THEN <<(<<wt, t.pos>>)>> ELSE <<>>
                      e    == FieldEnd(bytes, wt, t.pos)
                  IN  IF e = -1 THEN here
                      ELSE here \o MatchesUpToUnskippable(bytes, tag, e)

\* Option<(u8, usize)> of the first match
FirstOf(matches) ==
    IF matches = <<>> THEN NoField ELSE SomeField(matches[1][1], matches[1][2])

\* C10: a field that cannot be skipped ends the scan of its message silently:
\* find_all and find_first return exactly the matches whose tag starts at or
\* before the first unskippable field, nothing located after it, and no error
\* is raised.
C10_UnskippableFieldEndsScanSilently ==
    LET expected == MatchesUpToUnskippable(buf, target, 0)
    IN  /\ out.op = "find_all" =>
               ~out.all.panic /\ out.all.results = expected
        /\ out.op = "find_first" =>
               out.eager = FirstOf(expected) /\ out.lazy = FirstOf(expected)

\* What remains of C10 when a scan that panicked is left aside.
C10_HoldsUnlessPanic ==
    LET expected == MatchesUpToUnskippable(buf, target, 0)
    IN  /\ (out.op = "find_all" /\ ~out.all.panic) => out.all.results = expected
        /\ (out.op = "find_first" /\ out.eager.kind # "panic") =>
               out.eager = FirstOf(expected)
        /\ (out.op = "find_first" /\ out.lazy.kind # "panic") =>
               out.lazy = FirstOf(expected)

-----------------------------------------------------------------------------
(* Record level: LogRecord::parse on a fresh node and the trait accessors *)

\* bound on the number of fields of a record input
MaxRecordFields == 2

\* fields of a LogRecord message: time_unix_nano (tag 1) and
\* observed_time_unix_nano (tag 11) as fixed64 of value nonzero and zero, under
\* the wrong wire type, and cut short; a severity number; an attribute with key
\* "k"; a group marker, which cannot be skipped
RecordFieldEncodings ==
    { <<9, 1, 0, 0, 0, 0, 0, 0, 0>>, <<9, 0, 0, 0, 0, 0, 0, 0, 0>>,
      <<89, 2, 0, 0, 0, 0, 0, 0, 128>>, <<89, 0, 0, 0, 0, 0, 0, 0, 0>>,
      <<8, 5>>, <<88, 5>>, <<9, 1, 0>>, <<89, 7>>,
      <<16, 9>>, <<50, 5, 10, 1, 107, 18, 0>>, <<51>> }

RecordInputs == {Concat(fs) : fs \in SeqsUpTo(RecordFieldEncodings, MaxRecordFields)}

RecordInit ==
    /\ buf \in RecordInputs
    /\ pos = 0
    /\ target = 0
    /\ out = NoOut
    /\ phase = "input"
    /\ NoTree
    /\ NoView

\* LogRecord::new(), parse(buf), then the LogRecordView accessors
ParseRecord ==
    /\ phase = "input"
    /\ \E r \in {LogRecord_parse(LogRecord_new, Whole(buf), 0)} :
           out' = IF r.panic
                  THEN [op |-> "record", panic |-> TRUE, ok |-> FALSE,
                        rec |-> LogRecord_new, timestamp |-> None,
                        attributes |-> <<>>]
                  ELSE [op |-> "record", panic |-> FALSE, ok |-> r.ok,
                        rec |-> r.node,
                        timestamp |-> LogRecord_timestamp(r.node),
                        attributes |-> LogRecord_attributes(r.node)]
    /\ phase' = "done"
    /\ UNCHANGED <<buf, pos, target, logs, gen, tree, cache, scans, calls>>

\* the same record parsed as the only record of a scope: ScopeLogs::new(),
\* parse of the scope message that wraps buf
ParseRecordInScope ==
    /\ phase = "input"
    /\ Len(buf) < 128
    /\ \E r \in {ScopeLogs_parse(ScopeLogs_new, Whole(<<18, Len(buf)>> \o buf), 0)} :
         LET recs == ScopeLogs_log_records(r.node)
         IN  out' = IF r.panic
                  THEN [op |-> "record", panic |-> TRUE, ok |-> FALSE,
                        rec |-> LogRecord_new, timestamp |-> None,
                        attributes |-> <<>>]
                  ELSE [op |-> "record", panic |-> FALSE, ok |-> r.ok,
                        rec |-> recs[1],
                        timestamp |-> LogRecord_timestamp(recs[1]),
                        attributes |-> LogRecord_attributes(recs[1])]
    /\ phase' = "done"
    /\ UNCHANGED <<buf, pos, target, logs, gen, tree, cache, scans, calls>>

RecordNext == ParseRecord \/ ParseRecordInScope

SpecRecord == RecordInit /\ [][RecordNext]_vars

-----------------------------------------------------------------------------
(* Claims on the record level *)

\* the first field of the tag among the fields of buf, when it is a fixed64
\* with its eight bytes inside the message: Option of those bytes
FirstFixed64(bytes, tag) ==
    LET m == MatchesUpToUnskippable(bytes, tag, 0)
    IN  IF m # <<>> /\ m[1][1] = 1 /\ m[1][2] + 8 <= Len(bytes)
        THEN Some(SubSeq(bytes, m[1][2] + 1, m[1][2] + 8))
        ELSE None

\* the record's observed_time_unix_nano: the fixed64 of tag 11, 0 when absent
ObservedOf(bytes) ==
    IF IsSome(FirstFixed64(bytes, 11)) THEN FirstFixed64(bytes, 11)[1]
    ELSE ZeroFixed64

\* C5 as stated: timestamp() returns time_unix_nano when tag 1 is present as a
\* fixed64, and the record's observed_time_unix_nano value otherwise, which is
\* 0 when tag 11 is absent.
C5_TimestampFallsBackToObservedValue ==
    (out.op = "record" /\ ~out.panic) =>
        out.timestamp = IF IsSome(FirstFixed64(buf, 1)) THEN FirstFixed64(buf, 1)
                        ELSE Some(ObservedOf(buf))

\* C5, amended: timestamp() returns time_unix_nano when tag 1 is present as a
\* fixed64; when it is absent, timestamp() returns observed_time_unix_nano if
\* that value is nonzero and is absent (None) if it is 0.
C5_TimestampFallsBackToNonzeroObserved ==
    (out.op = "record" /\ ~out.panic) =>
        out.timestamp = IF IsSome(FirstFixed64(buf, 1)) THEN FirstFixed64(buf, 1)
                        ELSE IF ObservedOf(buf) # ZeroFixed64
                        THEN Some(ObservedOf(buf))
                        ELSE None

\* a record without time_unix_nano whose timestamp is its nonzero observed time
C5_Witness_FallbackTaken ==
    /\ out.op = "record" /\ ~out.panic
    /\ FirstFixed64(buf, 1) = None
    /\ ObservedOf(buf) # ZeroFixed64
    /\ out.timestamp = Some(ObservedOf(buf))

-----------------------------------------------------------------------------
(* The baseline object tree (the generated protobuf types that
   src/src/prost_structs.rs implements the view traits for) and its proto3
   encoding, logs.encode(&mut buf) in encode_logs_data.  The field numbers and
   wire types are those of the tag table of the specification, section 6; a
   scalar or string equal to its default is not written, a present message and
   the set branch of a value always are.  A String is its bytes; an integer is
   a natural number; a fixed64 or fixed32 is its little-endian bytes. *)

RECURSIVE EncodeVarint(_)
EncodeVarint(n) ==
    IF n < 128 THEN <<n>> ELSE <<(n % 128) + 128>> \o EncodeVarint(n \div 128)

\* the key of a field: (field number << 3) | wire type
EncodeKey(tag, wt) == EncodeVarint(tag * 8 + wt)

EncodeLengthDelimited(tag, payload) ==
    EncodeKey(tag, 2) \o EncodeVarint(Len(payload)) \o payload

\* a string or bytes field: not written when empty
EncodeString(tag, bytes) ==
    IF bytes = <<>> THEN <<>> ELSE EncodeLengthDelimited(tag, bytes)

\* a varint field: not written when 0
EncodeUint(tag, n) == IF n = 0 THEN <<>> ELSE EncodeKey(tag, 0) \o EncodeVarint(n)

\* a fixed64 field: not written when 0
EncodeFixed64(tag, bytes) ==
    IF bytes = ZeroFixed64 THEN <<>> ELSE EncodeKey(tag, 1) \o bytes

\* a fixed32 field: not written when 0
EncodeFixed32(tag, bytes) ==
    IF bytes = <<0, 0, 0, 0>> THEN <<>> ELSE EncodeKey(tag, 5) \o bytes

\* AnyValue: the set branch of the oneof is written even when it is a default
EncodeAnyValue(v) ==
    IF v.value = None THEN <<>>
    ELSE LET x == v.value[1]
         IN  CASE x.type = "String" -> EncodeLengthDelimited(1, x.s)
               [] x.type = "Bool"   -> EncodeKey(2, 0) \o x.n
               [] x.type = "Int"    -> EncodeKey(3, 0) \o EncodeVarint(x.n[1])
               [] x.type = "Double" -> EncodeKey(4, 1) \o x.n
               [] x.type = "Bytes"  -> EncodeLengthDelimited(7, x.s)

EncodeKeyValue(kv) ==
    EncodeString(1, kv.key)
    \o (IF IsSome(kv.value)
        THEN EncodeLengthDelimited(2, EncodeAnyValue(kv.value[1])) ELSE <<>>)

RECURSIVE EncodeAttributes(_, _)
EncodeAttributes(tag, kvs) ==
    IF kvs = <<>> THEN <<>>
    ELSE EncodeLengthDelimited(tag, EncodeKeyValue(Head(kvs)))
         \o EncodeAttributes(tag, Tail(kvs))

EncodeResource(r) ==
    EncodeAttributes(1, r.attributes) \o EncodeUint(2, r.dropped_attributes_count)

EncodeInstrumentationScope(sc) ==
    EncodeString(1, sc.name) \o EncodeString(2, sc.version)
    \o EncodeAttributes(3, sc.attributes)
    \o EncodeUint(4, sc.dropped_attributes_count)

EncodeLogRecord(r) ==
    EncodeFixed64(1, r.time_unix_nano)
    \o EncodeUint(2, r.severity_number)
    \o EncodeString(3, r.severity_text)
    \o (IF IsSome(r.body)
        THEN EncodeLengthDelimited(5, EncodeAnyValue(r.body[1])) ELSE <<>>)
    \o EncodeAttributes(6, r.attributes)
    \o EncodeUint(7, r.dropped_attributes_count)
    \o EncodeFixed32(8, r.flags)
    \o EncodeString(9, r.trace_id)
    \o EncodeString(10, r.span_id)
    \o EncodeFixed64(11, r.observed_time_unix_nano)
    \o EncodeString(12, r.event_name)

RECURSIVE EncodeLogRecords(_)
EncodeLogRecords(rs) ==
    IF rs = <<>> THEN <<>>
    ELSE EncodeLengthDelimited(2, EncodeLogRecord(Head(rs))) \o EncodeLogRecords(Tail(rs))

EncodeScopeLogs(sl) ==
    (IF IsSome(sl.scope)
     THEN EncodeLengthDelimited(1, EncodeInstrumentationScope(sl.scope[1])) ELSE <<>>)
    \o EncodeLogRecords(sl.log_records)
    \o EncodeString(3, sl.schema_url)

RECURSIVE EncodeScopeLogsList(_)
EncodeScopeLogsList(sls) ==
    IF sls = <<>> THEN <<>>
    ELSE EncodeLengthDelimited(2, EncodeScopeLogs(Head(sls)))
         \o EncodeScopeLogsList(Tail(sls))

EncodeResourceLogs(rl) ==
    (IF IsSome(rl.resource)
     THEN EncodeLengthDelimited(1, EncodeResource(rl.resource[1])) ELSE <<>>)
    \o EncodeScopeLogsList(rl.scope_logs)
    \o EncodeString(3, rl.schema_url)

RECURSIVE EncodeResourceLogsList(_)
EncodeResourceLogsList(rls) ==
    IF rls = <<>> THEN <<>>
    ELSE EncodeLengthDelimited(1, EncodeResourceLogs(Head(rls)))
         \o EncodeResourceLogsList(Tail(rls))

\* encode_logs_data
encode_logs_data(t) == EncodeResourceLogsList(t.resource_logs)

-----------------------------------------------------------------------------
(* The lazy views of src/src/otlp_bytes_lazy.rs: a view is the slice it holds *)

NoItem(p) == [kind |-> "none", item |-> EmptySlice, pos |-> p]

SomeItem(s, p) == [kind |-> "some", item |-> s, pos |-> p]

PanicItem == [kind |-> "panic", item |-> EmptySlice, pos |-> 0]

\* ResourceLogsIterator::next (tag 1), ScopeLogsIterator::next and
\* LogRecordIterator::next (tag 2): the same loop, from the iterator's pos.
\* Every ? returns None; pos + 8 and pos + 4 are not tested against the length,
\* the while condition ends the loop after them.
RECURSIVE iterator_next(_, _, _)
iterator_next(data, p, tag) ==
    IF p >= DLen(data) THEN NoItem(p)
    ELSE The({
      IF ~t.some THEN NoItem(p)
      ELSE LET wt == WireOf(t.val)
           IN  IF TagOf(t.val) = tag /\ wt = 2
               THEN The({ IF s.kind = "panic" THEN PanicItem
                          ELSE IF s.kind = "none" THEN NoItem(t.pos)
                          ELSE SomeItem(s.bytes, s.pos)
                          : s \in {lazy_parse_length_delimited(data, t.pos)} })
               ELSE IF wt = 0
               THEN The({ IF v.some THEN iterator_next(data, v.pos, tag)
                          ELSE NoItem(t.pos)
                          : v \in {lazy_parse_varint(data, t.pos)} })
               ELSE IF wt = 1 THEN iterator_next(data, t.pos + 8, tag)
               ELSE IF wt = 2
               THEN The({ IF s.kind = "panic" THEN PanicItem
                          ELSE IF s.kind = "none" THEN NoItem(t.pos)
                          ELSE iterator_next(data, s.pos, tag)
                          : s \in {lazy_parse_length_delimited(data, t.pos)} })
               ELSE IF wt = 5 THEN iterator_next(data, t.pos + 4, tag)
               ELSE NoItem(t.pos)
      : t \in {lazy_parse_varint(data, p)} })

\* a for loop over the iterator: the items up to the first None
RECURSIVE iterator_items(_, _, _, _)
iterator_items(data, p, tag, items) ==
    The({ IF n.kind = "panic" THEN [panic |-> TRUE, items |-> <<>>]
          ELSE IF n.kind = "none" THEN [panic |-> FALSE, items |-> items]
          ELSE iterator_items(data, n.pos, tag, Append(items, n.item))
          : n \in {iterator_next(data, p, tag)} })

\* LogsDataParser::resource_logs, consumed
resource_logs(data) == iterator_items(data, 0, 1, <<>>)

\* a scope iteration that reads the fields of tag 1, the resource, instead of
\* tag 2
scope_logs_tag1(data) == iterator_items(data, 0, 1, <<>>)

\* ResourceLogsParser::scope_logs, consumed
scope_logs(data) == iterator_items(data, 0, 2, <<>>)

\* ScopeLogsParser::log_records, consumed
log_records(data) == iterator_items(data, 0, 2, <<>>)

\* LogRecordParser::get_cache, the attributes vector of the FieldCache: the
\* (wire type, position) of every field of tag 6 met by the one linear scan
RECURSIVE cache_attributes(_, _, _)
cache_attributes(data, p, attributes) ==
    IF p >= DLen(data) THEN [panic |-> FALSE, attributes |-> attributes]
    ELSE The({
      IF ~t.some THEN [panic |-> FALSE, attributes |-> attributes]
      ELSE LET wt   == WireOf(t.val)
               here == IF TagOf(t.val) = 6 THEN Append(attributes, <<wt, t.pos>>)
                       ELSE attributes
               done == [panic |-> FALSE, attributes |-> here]
           IN  IF wt = 0
               THEN The({ IF v.some THEN cache_attributes(data, v.pos, here)
                          ELSE done
                          : v \in {lazy_parse_varint(data, t.pos)} })
               ELSE IF wt = 1
               THEN IF t.pos + 8 <= DLen(data)
                    THEN cache_attributes(data, t.pos + 8, here)
                    ELSE done
               ELSE IF wt = 2
               THEN The({ IF s.kind = "panic"
                          THEN [panic |-> TRUE, attributes |-> <<>>]
                          ELSE IF s.kind = "some"
                          THEN cache_attributes(data, s.pos, here)
                          ELSE done
                          : s \in {lazy_parse_length_delimited(data, t.pos)} })
               ELSE IF wt = 5
               THEN IF t.pos + 4 <= DLen(data)
                    THEN cache_attributes(data, t.pos + 4, here)
                    ELSE done
               ELSE done
      : t \in {lazy_parse_varint(data, p)} })

\* CachedAttributeIterator::next in a for loop: the items up to the first
\* None, which a cached position of another wire type or with a span that does
\* not fit produces
RECURSIVE cached_attribute_items(_, _, _, _)
cached_attribute_items(data, positions, index, items) ==
    IF index >= Len(positions) THEN [panic |-> FALSE, items |-> items]
    ELSE IF positions[index + 1][1] # 2 THEN [panic |-> FALSE, items |-> items]
    ELSE The({
      IF s.kind = "panic" THEN [panic |-> TRUE, items |-> <<>>]
      ELSE IF s.kind = "none" THEN [panic |-> FALSE, items |-> items]
      ELSE cached_attribute_items(data, positions, index + 1, Append(items, s.bytes))
      : s \in {lazy_parse_length_delimited(data, positions[index + 1][2])} })

\* an attribute iteration that reads the fields of tag 2 instead of tag 6
lazy_attributes_tag2(data) == iterator_items(data, 0, 2, <<>>)

\* LogRecordParser::attributes, consumed
lazy_attributes(data) ==
    The({ IF c.panic THEN [panic |-> TRUE, items |-> <<>>]
          ELSE cached_attribute_items(data, c.attributes, 0, <<>>)
          : c \in {cache_attributes(data, 0, <<>>)} })

-----------------------------------------------------------------------------
(* The trait implementations of the baseline tree, src/src/prost_structs.rs,
   and the generic walk over the view traits *)

\* ResourceLogsView::resource for the prost ResourceLogs
Prost_resource(self) ==
    LET attrs == self.resource[1].attributes
        hits  == {i \in 1..Len(attrs) : attrs[i].key = Str_service_name}
        first == CHOOSE i \in hits : \A j \in hits : i <= j
        v     == attrs[first].value
    IN  IF self.resource = None THEN Str_unknown
        ELSE IF hits = {} THEN Str_unknown
        ELSE IF v = None THEN Str_unknown
        ELSE IF v[1].value = None THEN Str_unknown
        ELSE IF v[1].value[1].type = "String" THEN v[1].value[1].s
        ELSE Str_unknown

\* ScopeLogsView::scope for the prost ScopeLogs
Prost_scope(self) ==
    IF IsSome(self.scope) THEN self.scope[1].name ELSE Str_unknown

\* ScopeLogsView::version for the prost ScopeLogs
Prost_version(self) ==
    IF IsSome(self.scope) THEN Some(self.scope[1].version) ELSE None

\* LogRecordView::timestamp for the prost LogRecord
Prost_timestamp(self) == Some(self.time_unix_nano)

\* AnyValueView::value_type for the prost AnyValue: String when no branch is set
Prost_value_type(self) ==
    IF self.value = None THEN "String"
    ELSE CASE self.value[1].type = "Int" -> "Int64"
           [] OTHER -> self.value[1].type

\* the u64 of a natural number below 2^31, as 7-bit groups
U64OfNat(n) ==
    [k \in 1..10 |-> CASE k = 1 -> n % 128
                       [] k = 2 -> (n \div 128) % 128
                       [] k = 3 -> (n \div 16384) % 128
                       [] k = 4 -> (n \div 2097152) % 128
                       [] k = 5 -> (n \div 268435456) % 128
                       [] OTHER -> 0]

\* what the typed accessors of AnyValueView return for a baseline value:
\* value_type, as_string, as_bool, as_int64, as_double, as_bytes
Prost_value_results(self) ==
    LET set == IsSome(self.value)
        x   == self.value[1]
    IN  [value_type |-> Prost_value_type(self),
         as_string  |-> IF set /\ x.type = "String" THEN Some(x.s) ELSE None,
         as_bool    |-> IF set /\ x.type = "Bool" THEN Some(x.n[1] # 0) ELSE None,
         as_int64   |-> IF set /\ x.type = "Int" THEN Some(U64OfNat(x.n[1])) ELSE None,
         as_double  |-> IF set /\ x.type = "Double" THEN Some(x.n) ELSE None,
         as_bytes   |-> IF set /\ x.type = "Bytes" THEN Some(x.s) ELSE None]

\* the same accessors on an eager AnyValue
AnyValue_value_results(self) ==
    LET x == self.value
    IN  [value_type |-> AnyValue_value_type(self),
         as_string  |-> string_value(self),
         as_bool    |-> IF x.type = "Bool" THEN Some(x.n[1] # 0) ELSE None,
         as_int64   |-> IF x.type = "Int" THEN Some(x.n) ELSE None,
         as_double  |-> IF x.type = "Double" THEN Some(x.n) ELSE None,
         as_bytes   |-> IF x.type = "Bytes" THEN Some(Bytes(x.s)) ELSE None]

\* inspect_logs / traverse_logs over the baseline tree: what the trait
\* methods return at every position of the walk
Prost_walk(t) ==
    [i \in 1..Len(t.resource_logs) |->
      LET rl == t.resource_logs[i]
      IN  [resource |-> Prost_resource(rl),
           scopes |-> [j \in 1..Len(rl.scope_logs) |->
             LET sl == rl.scope_logs[j]
             IN  [scope |-> Prost_scope(sl),
                  version |-> Prost_version(sl),
                  records |-> [k \in 1..Len(sl.log_records) |->
                    LET r == sl.log_records[k]
                    IN  [name |-> Str_log_record,
                         timestamp |-> Prost_timestamp(r),
                         attributes |-> [a \in 1..Len(r.attributes) |->
                           LET kv == r.attributes[a]
                           IN  [key |-> kv.key,
                                value |-> IF IsSome(kv.value)
                                          THEN Some(Prost_value_results(kv.value[1]))
                                          ELSE None]]]]]]]]

\* the same walk over the eager tree
LogsData_walk(self) ==
    LET rls == LogsData_resources(self)
    IN  [i \in 1..Len(rls) |->
          LET sls == ResourceLogs_scopes(rls[i])
          IN  [resource |-> ResourceLogs_resource(rls[i]),
               scopes |-> [j \in 1..Len(sls) |->
                 LET rs == ScopeLogs_log_records(sls[j])
                 IN  [scope |-> ScopeLogs_scope(sls[j]),
                      version |-> ScopeLogs_version(sls[j]),
                      records |-> [k \in 1..Len(rs) |->
                        LET as == LogRecord_attributes(rs[k])
                        IN  [name |-> LogRecord_name(rs[k]),
                             timestamp |-> LogRecord_timestamp(rs[k]),
                             attributes |-> [a \in 1..Len(as) |->
                               [key |-> KeyValue_key(as[a]),
                                value |-> IF IsSome(KeyValue_value(as[a]))
                                          THEN Some(AnyValue_value_results(
                                                       KeyValue_value(as[a])[1]))
                                          ELSE None]]]]]]]]

RECURSIVE SumOf(_)
SumOf(ns) == IF ns = <<>> THEN 0 ELSE Head(ns) + SumOf(Tail(ns))

\* traverse_logs of src/benches/logs_traversal.rs: the four counters of a walk
traverse_logs(walk) ==
    LET scope_counts  == [i \in 1..Len(walk) |-> Len(walk[i].scopes)]
        record_counts == [i \in 1..Len(walk) |->
                            SumOf([j \in 1..Len(walk[i].scopes) |->
                                      Len(walk[i].scopes[j].records)])]
        attr_counts   == [i \in 1..Len(walk) |->
                            SumOf([j \in 1..Len(walk[i].scopes) |->
                               SumOf([k \in 1..Len(walk[i].scopes[j].records) |->
                                  Len(walk[i].scopes[j].records[k].attributes)])])]
    IN  <<Len(walk), SumOf(scope_counts), SumOf(record_counts), SumOf(attr_counts)>>

\* the loops of traverse_otlp_bytes_lazy_logs, keeping what each iteration
\* yields: for every record the items of attributes(), for every scope group
\* its records, for every resource group its scope groups; panic at the level
\* whose iterator panicked
RECURSIVE lazy_walk_records(_, _)
lazy_walk_records(records, k) ==
    IF k > Len(records) THEN <<>>
    ELSE The({ << [panic |-> as.panic, attributes |-> as.items] >>
                 \o lazy_walk_records(records, k + 1)
               : as \in {lazy_attributes(records[k])} })

RECURSIVE lazy_walk_scopes(_, _)
lazy_walk_scopes(scopes, j) ==
    IF j > Len(scopes) THEN <<>>
    ELSE The({ << [panic |-> rs.panic,
                   records |-> lazy_walk_records(rs.items, 1)] >>
                 \o lazy_walk_scopes(scopes, j + 1)
               : rs \in {log_records(scopes[j])} })

RECURSIVE lazy_walk_resources(_, _)
lazy_walk_resources(resources, i) ==
    IF i > Len(resources) THEN <<>>
    ELSE The({ << [panic |-> ss.panic,
                   scopes |-> lazy_walk_scopes(ss.items, 1)] >>
                 \o lazy_walk_resources(resources, i + 1)
               : ss \in {scope_logs(resources[i])} })

lazy_walk(data) ==
    The({ [panic |-> rls.panic, resources |-> lazy_walk_resources(rls.items, 1)]
          : rls \in {resource_logs(data)} })

\* traverse_otlp_bytes_lazy_logs: the four counters of the lazy walk of a buffer
RECURSIVE lazy_count_records(_, _)
lazy_count_records(records, k) ==
    IF k > Len(records) THEN 0
    ELSE Len(lazy_attributes(records[k]).items) + lazy_count_records(records, k + 1)

RECURSIVE lazy_count_scopes(_, _)
lazy_count_scopes(scopes, j) ==
    IF j > Len(scopes) THEN <<0, 0>>
    ELSE The({ <<Len(rs) + rest[1], lazy_count_records(rs, 1) + rest[2]>>
               : rs   \in {log_records(scopes[j]).items},
                 rest \in {lazy_count_scopes(scopes, j + 1)} })

RECURSIVE lazy_count_resources(_, _)
lazy_count_resources(resources, i) ==
    IF i > Len(resources) THEN <<0, 0, 0>>
    ELSE The({
      The({ <<Len(ss) + rest[1], here[1] + rest[2], here[2] + rest[3]>>
            : here \in {lazy_count_scopes(ss, 1)} })
      : ss   \in {scope_logs(resources[i]).items},
        rest \in {lazy_count_resources(resources, i + 1)} })

traverse_otlp_bytes_lazy_logs(data) ==
    The({ The({ <<Len(rls), c[1], c[2], c[3]>>
                : c \in {lazy_count_resources(rls, 1)} })
          : rls \in {resource_logs(data).items} })

-----------------------------------------------------------------------------
(* View level: a baseline tree is built, encoded, parsed into a fresh eager
   tree and walked by the three strategies *)

\* AnyValue { value: Some(any_value::Value::...) }
ProstValue(type, s, n) == [value |-> Some([type |-> type, s |-> s, n |-> n])]

\* AnyValue { value: None }
ProstUnset == [value |-> None]

\* KeyValue { key, value }
ProstKeyValue(key, value) == [key |-> key, value |-> value]

\* create_test_logs of src/src/main.rs: 2 resource groups, 3 scope groups,
\* 4 log records, 13 record attributes
create_test_logs ==
    [resource_logs |-> <<
    [resource |-> Some([attributes |-> <<
          ProstKeyValue(<<115, 101, 114, 118, 105, 99, 101, 46, 110, 97, 109, 101>>,
              Some(ProstValue("String", <<119, 101, 98, 45, 115, 101, 114, 118, 101, 114>>, <<>>))),
          ProstKeyValue(<<115, 101, 114, 118, 105, 99, 101, 46, 118, 101, 114, 115, 105, 111, 110>>,
              Some(ProstValue("String", <<49, 46, 50, 46, 51>>, <<>>))),
          ProstKeyValue(<<100, 101, 112, 108, 111, 121, 109, 101, 110, 116, 46, 101, 110, 118, 105, 114, 111, 110, 109, 101, 110, 116>>,
              Some(ProstValue("String", <<112, 114, 111, 100, 117, 99, 116, 105, 111, 110>>, <<>>))) >>,
                        dropped_attributes_count |-> 0]),
     scope_logs |-> <<
        [scope |-> Some([name |-> <<104, 116, 116, 112, 45, 104, 97, 110, 100, 108, 101, 114>>,
                         version |-> <<49, 46, 48, 46, 48>>,
                         attributes |-> <<>>,
                         dropped_attributes_count |-> 0]),
         log_records |-> <<
            [time_unix_nano |-> <<0, 0, 218, 180, 59, 234, 216, 23>>,
             observed_time_unix_nano |-> <<0, 0, 218, 180, 59, 234, 216, 23>>,
             severity_number |-> 9,
             severity_text |-> <<73, 78, 70, 79>>,
             body |-> Some(ProstValue("String", <<114, 101, 113, 117, 101, 115, 116, 95, 114, 101, 99, 101, 105, 118, 101, 100>>, <<>>)),
             attributes |-> <<
                ProstKeyValue(<<109, 101, 116, 104, 111, 100>>,
                    Some(ProstValue("String", <<71, 69, 84>>, <<>>))),
                ProstKeyValue(<<115, 116, 97, 116, 117, 115, 95, 99, 111, 100, 101>>,
                    Some(ProstValue("Int", <<>>, <<200>>))),
                ProstKeyValue(<<114, 101, 115, 112, 111, 110, 115, 101, 95, 116, 105, 109, 101, 95, 109, 115>>,
                    Some(ProstValue("Double", <<>>, <<154, 153, 153, 153, 153, 217, 70, 64>>))),
                ProstKeyValue(<<115, 117, 99, 99, 101, 115, 115>>,
                    Some(ProstValue("Bool", <<>>, <<1>>))) >>,
             dropped_attributes_count |-> 0,
             flags |-> <<0, 0, 0, 0>>,
             trace_id |-> <<>>,
             span_id |-> <<>>,
             event_name |-> <<72, 84, 84, 80, 32, 82, 101, 113, 117, 101, 115, 116>>],
            [time_unix_nano |-> <<0, 202, 116, 240, 59, 234, 216, 23>>,
             observed_time_unix_nano |-> <<0, 202, 116, 240, 59, 234, 216, 23>>,
             severity_number |-> 13,
             severity_text |-> <<69, 82, 82, 79, 82>>,
             body |-> Some(ProstValue("String", <<114, 101, 113, 117, 101, 115, 116, 95, 102, 97, 105, 108, 101, 100>>, <<>>)),
             attributes |-> <<
                ProstKeyValue(<<109, 101, 116, 104, 111, 100>>,
                    Some(ProstValue("String", <<80, 79, 83, 84>>, <<>>))),
                ProstKeyValue(<<115, 116, 97, 116, 117, 115, 95, 99, 111, 100, 101>>,
                    Some(ProstValue("Int", <<>>, <<500>>))),
                ProstKeyValue(<<101, 114, 114, 111, 114, 95, 109, 101, 115, 115, 97, 103, 101>>,
                    Some(ProstValue("String", <<68, 97, 116, 97, 98, 97, 115, 101, 32, 99, 111, 110, 110, 101, 99, 116, 105, 111, 110, 32, 102, 97, 105, 108, 101, 100>>, <<>>))) >>,
             dropped_attributes_count |-> 0,
             flags |-> <<0, 0, 0, 0>>,
             trace_id |-> <<>>,
             span_id |-> <<>>,
             event_name |-> <<72, 84, 84, 80, 32, 69, 114, 114, 111, 114>>] >>,
         schema_url |-> <<>>],
        [scope |-> Some([name |-> <<100, 97, 116, 97, 98, 97, 115, 101, 45, 99, 111, 110, 110, 101, 99, 116, 111, 114>>,
                         version |-> <<50, 46, 49, 46, 48>>,
                         attributes |-> <<>>,
                         dropped_attributes_count |-> 0]),
         log_records |-> <<
            [time_unix_nano |-> <<0, 148, 15, 44, 60, 234, 216, 23>>,
             observed_time_unix_nano |-> <<0, 148, 15, 44, 60, 234, 216, 23>>,
             severity_number |-> 5,
             severity_text |-> <<68, 69, 66, 85, 71>>,
             body |-> Some(ProstValue("String", <<99, 111, 110, 110, 101, 99, 116, 105, 111, 110, 95, 101, 115, 116, 97, 98, 108, 105, 115, 104, 101, 100>>, <<>>)),
             attributes |-> <<
                ProstKeyValue(<<100, 98, 46, 110, 97, 109, 101>>,
                    Some(ProstValue("String", <<117, 115, 101, 114, 115, 95, 100, 98>>, <<>>))),
                ProstKeyValue(<<99, 111, 110, 110, 101, 99, 116, 105, 111, 110, 95, 112, 111, 111, 108, 95, 115, 105, 122, 101>>,
                    Some(ProstValue("Int", <<>>, <<10>>))),
                ProstKeyValue(<<99, 111, 110, 110, 101, 99, 116, 105, 111, 110, 95, 116, 105, 109, 101, 111, 117, 116, 95, 109, 115>>,
                    Some(ProstValue("Double", <<>>, <<0, 0, 0, 0, 0, 136, 179, 64>>))) >>,
             dropped_attributes_count |-> 0,
             flags |-> <<0, 0, 0, 0>>,
             trace_id |-> <<>>,
             span_id |-> <<>>,
             event_name |-> <<68, 66, 32, 67, 111, 110, 110, 101, 99, 116, 105, 111, 110>>] >>,
         schema_url |-> <<>>] >>,
     schema_url |-> <<>>],
    [resource |-> Some([attributes |-> <<
          ProstKeyValue(<<115, 101, 114, 118, 105, 99, 101, 46, 110, 97, 109, 101>>,
              Some(ProstValue("String", <<98, 97, 99, 107, 103, 114, 111, 117, 110, 100, 45, 119, 111, 114, 107, 101, 114>>, <<>>))),
          ProstKeyValue(<<115, 101, 114, 118, 105, 99, 101, 46, 118, 101, 114, 115, 105, 111, 110>>,
              Some(ProstValue("String", <<48, 46, 57, 46, 49>>, <<>>))),
          ProstKeyValue(<<119, 111, 114, 107, 101, 114, 46, 105, 100>>,
              Some(ProstValue("Int", <<>>, <<42>>))) >>,
                        dropped_attributes_count |-> 0]),
     scope_logs |-> <<
        [scope |-> Some([name |-> <<106, 111, 98, 45, 112, 114, 111, 99, 101, 115, 115, 111, 114>>,
                         version |-> <<51, 46, 48, 46, 48>>,
                         attributes |-> <<>>,
                         dropped_attributes_count |-> 0]),
         log_records |-> <<
            [time_unix_nano |-> <<0, 94, 170, 103, 60, 234, 216, 23>>,
             observed_time_unix_nano |-> <<0, 94, 170, 103, 60, 234, 216, 23>>,
             severity_number |-> 9,
             severity_text |-> <<73, 78, 70, 79>>,
             body |-> Some(ProstValue("String", <<106, 111, 98, 95, 115, 116, 97, 114, 116, 101, 100>>, <<>>)),
             attributes |-> <<
                ProstKeyValue(<<106, 111, 98, 46, 105, 100>>,
                    Some(ProstValue("String", <<106, 111, 98, 45, 49, 50, 51, 52, 53>>, <<>>))),
                ProstKeyValue(<<106, 111, 98, 46, 116, 121, 112, 101>>,
                    Some(ProstValue("String", <<101, 109, 97, 105, 108, 45, 98, 97, 116, 99, 104>>, <<>>))),
                ProstKeyValue(<<98, 97, 116, 99, 104, 95, 115, 105, 122, 101>>,
                    Some(ProstValue("Int", <<>>, <<1000>>))) >>,
             dropped_attributes_count |-> 0,
             flags |-> <<0, 0, 0, 0>>,
             trace_id |-> <<>>,
             span_id |-> <<>>,
             event_name |-> <<74, 111, 98, 32, 80, 114, 111, 99, 101, 115, 115, 105, 110, 103>>] >>,
         schema_url |-> <<>>] >>,
     schema_url |-> <<>>] >>]

\* bounds on the trees built: children per node at each level
MaxResources == 2

MaxScopes == 2

MaxRecords == 2

MaxAttributes == 2

\* what a built tree deviates in from the plain one
Variants ==
    {"plain", "no_resource", "no_service_name", "int_service_name", "no_scope",
     "empty_scope_name", "empty_version", "zero_time", "zero_times",
     "empty_key", "no_value", "unset_value"}

\* the value of the i-th attribute: "GET", 200, 45.7, true in turn
MkValue(i) ==
    CASE i % 4 = 1 -> ProstValue("String", <<71, 69, 84>>, <<>>)
      [] i % 4 = 2 -> ProstValue("Int", <<>>, <<200>>)
      [] i % 4 = 3 -> ProstValue("Double", <<>>, <<154, 153, 153, 153, 153, 217, 70, 64>>)
      [] OTHER     -> ProstValue("Bool", <<>>, <<1>>)

\* the i-th attribute, key "k1", "k2", ...
MkAttribute(i, variant) ==
    ProstKeyValue(IF variant = "empty_key" /\ i = 1 THEN <<>> ELSE <<107, 48 + i>>,
                  CASE variant = "no_value" -> None
                    [] variant = "unset_value" -> Some(ProstUnset)
                    [] OTHER -> Some(MkValue(i)))

\* the number of children of the idx-th node of a level that asks for n: n, or
\* one less for each earlier sibling when the tree is skewed
ChildCount(n, idx, skew) ==
    IF ~skew THEN n ELSE IF n - (idx - 1) > 0 THEN n - (idx - 1) ELSE 0

MkRecord(a, variant) ==
    [time_unix_nano |-> IF variant \in {"zero_time", "zero_times"} THEN ZeroFixed64
                        ELSE <<0, 0, 218, 180, 59, 234, 216, 23>>,
     observed_time_unix_nano |-> IF variant = "zero_times" THEN ZeroFixed64
                                 ELSE <<0, 202, 116, 240, 59, 234, 216, 23>>,
     severity_number |-> 9,
     severity_text |-> <<73, 78, 70, 79>>,
     body |-> Some(ProstValue("String", <<111, 107>>, <<>>)),
     attributes |-> [i \in 1..a |-> MkAttribute(i, variant)],
     dropped_attributes_count |-> 0,
     flags |-> <<0, 0, 0, 0>>,
     trace_id |-> <<>>,
     span_id |-> <<>>,
     event_name |-> <<101, 118>>]

MkScopeLogs(l, a, skew, variant) ==
    [scope |-> IF variant = "no_scope" THEN None
               ELSE Some([name |-> IF variant = "empty_scope_name" THEN <<>>
                                   ELSE <<115, 99>>,
                          version |-> IF variant = "empty_version" THEN <<>>
                                      ELSE <<49, 46, 48>>,
                          attributes |-> <<>>,
                          dropped_attributes_count |-> 0]),
     log_records |-> [k \in 1..l |-> MkRecord(ChildCount(a, k, skew), variant)],
     schema_url |-> <<>>]

MkResourceLogs(s, l, a, skew, variant) ==
    [resource |->
        IF variant = "no_resource" THEN None
        ELSE Some([attributes |->
                     IF variant = "no_service_name" THEN <<>>
                     ELSE <<ProstKeyValue(Str_service_name,
                              IF variant = "int_service_name"
                              THEN Some(ProstValue("Int", <<>>, <<42>>))
                              ELSE Some(ProstValue("String", <<119, 101, 98>>, <<>>)))>>,
                   dropped_attributes_count |-> 0]),
     scope_logs |-> [j \in 1..s |-> MkScopeLogs(ChildCount(l, j, skew), a, skew, variant)],
     schema_url |-> <<>>]

MkLogsData(r, s, l, a, skew, variant) ==
    [resource_logs |->
        [i \in 1..r |-> MkResourceLogs(ChildCount(s, i, skew), l, a, skew, variant)]]

\* the plain trees of every shape within the bounds, the full tree in every
\* variant, and the fixture
Trees ==
    {MkLogsData(r, s, l, a, skew, "plain") :
        r \in 0..MaxResources, s \in 0..MaxScopes, l \in 0..MaxRecords,
        a \in 0..MaxAttributes, skew \in BOOLEAN}
    \cup {MkLogsData(MaxResources, MaxScopes, MaxRecords, MaxAttributes, skew, v) :
            skew \in BOOLEAN, v \in Variants}
    \cup {create_test_logs}

ViewInit ==
    /\ tree \in {Some(t) : t \in Trees}
    /\ buf = <<>>
    /\ pos = 0
    /\ target = 0
    /\ out = NoOut
    /\ phase = "built"
    /\ logs = LogsData_new
    /\ gen = 0
    /\ NoView

\* let encoded = encode_logs_data(&logs)
Encode ==
    /\ phase = "built"
    /\ buf' = encode_logs_data(tree[1])
    /\ phase' = "encoded"
    /\ UNCHANGED <<pos, target, out, logs, gen, tree, cache, scans, calls>>

\* let mut bytes_logs = otlp_bytes::LogsData::new(); bytes_logs.parse(&encoded)
ParseEncoded ==
    /\ phase = "encoded"
    /\ \E r \in {LogsData_parse(logs, Whole(buf), gen + 1)} :
           IF r.panic
           THEN /\ phase' = "panicked"
                /\ out' = [op |-> "parse", ok |-> FALSE]
                /\ logs' = logs
           ELSE /\ phase' = "parsed"
                /\ out' = [op |-> "parse", ok |-> r.ok]
                /\ logs' = r.node
    /\ gen' = gen + 1
    /\ UNCHANGED <<buf, pos, target, tree, cache, scans, calls>>

\* the three traversals: traverse_logs(&logs), traverse_logs(&bytes_logs) and
\* traverse_otlp_bytes_lazy_logs(&LogsDataParser::new(&encoded))
Traverse ==
    /\ phase = "parsed"
    /\ \E bw \in {Prost_walk(tree[1])}, ew \in {LogsData_walk(logs)} :
           out' = [op       |-> "traverse",
                   baseline |-> bw,
                   eager    |-> ew,
                   lazy     |-> lazy_walk(Whole(buf)),
                   counts   |-> [baseline |-> traverse_logs(bw),
                                 eager    |-> traverse_logs(ew),
                                 lazy     |-> traverse_otlp_bytes_lazy_logs(Whole(buf))]]
    /\ phase' = "walked"
    /\ UNCHANGED <<buf, pos, target, logs, gen, tree, cache, scans, calls>>

ViewNext == Encode \/ ParseEncoded \/ Traverse

SpecViews == ViewInit /\ [][ViewNext]_vars

-----------------------------------------------------------------------------
(* Claims on the view level *)

\* every attribute of every record of the tree has a non-empty key: the
\* attributes the data model of the specification calls valid
ValidAttributes(t) ==
    \A i \in 1..Len(t.resource_logs) :
      \A j \in 1..Len(t.resource_logs[i].scope_logs) :
        \A k \in 1..Len(t.resource_logs[i].scope_logs[j].log_records) :
          LET r == t.resource_logs[i].scope_logs[j].log_records[k]
          IN  \A a \in 1..Len(r.attributes) : r.attributes[a].key # <<>>

\* C3: on the encoding of a tree of valid attributes, the baseline tree, the
\* eager tree and the lazy view report the same (resource_count, scope_count,
\* record_count, attribute_count); on the fixture the counts are (2, 3, 4, 13).
C3_TraversalCountsAgree ==
    (out.op = "traverse" /\ ValidAttributes(tree[1])) =>
        /\ out.counts.eager = out.counts.baseline
        /\ out.counts.lazy = out.counts.baseline
        /\ tree[1] = create_test_logs => out.counts.baseline = <<2, 3, 4, 13>>

\* the fixture walked by the three strategies
C3_Witness_FixtureCounted ==
    /\ out.op = "traverse"
    /\ tree[1] = create_test_logs
    /\ out.counts.eager = <<2, 3, 4, 13>>
    /\ out.counts.lazy = <<2, 3, 4, 13>>

\* The counts of the three strategies on every tree built, an attribute with an
\* empty key included.
C3_CountsAgreeOnEveryTree ==
    out.op = "traverse" =>
        /\ out.counts.eager = out.counts.baseline
        /\ out.counts.lazy = out.counts.baseline

\* C4: at every position of the walk the trait methods resource(), scope(),
\* version(), name(), timestamp(), key(), value_type() and the typed value
\* accessors return the same results on the baseline tree and on the eager tree
\* parsed from its encoding.
C4_BaselineAndEagerWalksAgree ==
    out.op = "traverse" => out.eager = out.baseline

\* What remains of C4 on the plain trees and the fixture, where the resource
\* has a service.name string, the scope a name and a version, the record a
\* nonzero time_unix_nano and every attribute a key and a set value.
C4_HoldsOnFullyPopulatedTrees ==
    (/\ out.op = "traverse"
     /\ \E r \in 0..MaxResources, s \in 0..MaxScopes, l \in 0..MaxRecords,
           a \in 0..MaxAttributes, skew \in BOOLEAN :
              \/ tree[1] = MkLogsData(r, s, l, a, skew, "plain")
              \/ tree[1] = create_test_logs)
    => out.eager = out.baseline

-----------------------------------------------------------------------------
(* Tree level: one otlp_bytes::LogsData instance parsed into again and again,
   as the benchmarks and main do with bytes_logs.parse(&encoded) *)

\* bound on the number of parse calls made on the instance
MaxParses == 3

\* a value that is an array of a string and a bool, and a value that is a
\* kvlist of one pair, as AnyValue::parse reads them
ArrayValueBytes == <<42, 4, 10, 2, 104, 105, 42, 2, 16, 1>>

KvListValueBytes == <<50, 7, 10, 1, 107, 18, 2, 24, 5>>

\* a log record with an array body, a kvlist attribute, a trace id and an
\* attribute without a key, alone in a scope and a resource group
NestedValuesBuffer ==
    LET record == EncodeLengthDelimited(5, ArrayValueBytes)
                  \o EncodeLengthDelimited(6, <<10, 1, 97>>
                         \o EncodeLengthDelimited(2, KvListValueBytes))
                  \o EncodeLengthDelimited(6, <<18, 2, 16, 1>>)
                  \o EncodeLengthDelimited(9, <<1, 2, 3>>)
        scope  == EncodeLengthDelimited(2, record) \o <<26, 1, 255>>
    IN  EncodeLengthDelimited(1, EncodeLengthDelimited(2, scope))

\* a resource group of two bytes whose scope field declares five: the span
\* leaves the group but not the buffer
OverreachingBuffer == <<10, 2, 18, 5, 18, 0, 10, 0, 0>>

\* a length that overflows the position it is added to
OverflowingBuffer == <<10, 255, 255, 255, 255, 255, 255, 255, 255, 255, 1>>

\* all but the last byte of a buffer
Truncated(bytes) == SubSeq(bytes, 1, Len(bytes) - 1)

\* the buffers parsed: encodings of trees with three, two, one and no resource
\* groups, one of them with an attribute that does not parse, one cut short,
\* and the malformed buffers above
ReuseInputs ==
    { encode_logs_data(MkLogsData(MaxResources + 1, 1, 1, 1, FALSE, "plain")),
      encode_logs_data(MkLogsData(1, MaxScopes, MaxRecords, MaxAttributes, FALSE, "plain")),
      encode_logs_data(MkLogsData(MaxResources, MaxScopes, MaxRecords, MaxAttributes,
                                  TRUE, "empty_key")),
      encode_logs_data(MkLogsData(1, 1, 1, 0, FALSE, "zero_times")),
      Truncated(encode_logs_data(MkLogsData(MaxResources, 1, MaxRecords, 1, FALSE, "plain"))),
      <<>>,
      NestedValuesBuffer,
      OverreachingBuffer,
      OverflowingBuffer }

Init ==
    /\ buf = <<>>
    /\ pos = 0
    /\ target = 0
    /\ out = NoOut
    /\ phase = "new"
    /\ logs = LogsData_new
    /\ gen = 0
    /\ tree = None
    /\ NoView

\* logs.parse(&b): the instance is cleared and filled from b; a panic ends the
\* run
Parse(b) ==
    /\ phase \in {"new", "parsed"}
    /\ gen < MaxParses
    /\ \E r \in {LogsData_parse(logs, Whole(b), gen + 1)} :
           IF r.panic
           THEN /\ phase' = "panicked"
                /\ out' = [op |-> "parse", ok |-> FALSE]
                /\ logs' = logs
           ELSE /\ phase' = "parsed"
                /\ out' = [op |-> "parse", ok |-> r.ok]
                /\ logs' = r.node
    /\ buf' = b
    /\ gen' = gen + 1
    /\ UNCHANGED <<pos, target, tree, cache, scans, calls>>

Next == \E b \in ReuseInputs : Parse(b)

Spec == Init /\ [][Next]_vars

-----------------------------------------------------------------------------
(* Claims on the tree level *)

\* the observable state of an eager node: its singular fields and the children
\* that iteration yields, each in its observable state
KeyValuesView(attributes, used) == SubSeq(attributes, 1, used)

AttributedView(node) ==
    [node EXCEPT !.attributes = KeyValuesView(node.attributes, node.attributes_used)]

ScopeLogsView(node) ==
    [node EXCEPT !.scope = IF IsSome(node.scope) THEN Some(AttributedView(node.scope[1]))
                           ELSE None,
                 !.log_records = [k \in 1..node.log_records_used |->
                                     AttributedView(node.log_records[k])]]

ResourceLogsView(node) ==
    [node EXCEPT !.resource = IF IsSome(node.resource)
                              THEN Some(AttributedView(node.resource[1])) ELSE None,
                 !.scope_logs = [j \in 1..node.scope_logs_used |->
                                    ScopeLogsView(node.scope_logs[j])]]

LogsDataView(node) ==
    [node EXCEPT !.resource_logs = [i \in 1..node.used_count |->
                                       ResourceLogsView(node.resource_logs[i])]]

\* the payload slices of the matches, from the x-th on, that are
\* length-delimited and lie whole inside the message
RECURSIVE CollectChildren(_, _, _)
CollectChildren(parent, m, x) ==
    IF x > Len(m) THEN <<>>
    ELSE IF m[x][1] = 2 /\ FieldEnd(Bytes(parent), 2, m[x][2]) # -1
    THEN LET v == plain_parse_varint(parent, m[x][2])
         IN  <<Slice(parent.b, parent.lo + v.pos, parent.lo + v.pos + SmallVal(v.val))>>
             \o CollectChildren(parent, m, x + 1)
    ELSE CollectChildren(parent, m, x + 1)

\* the length-delimited fields of the tag inside a message, in wire order, that
\* lie whole inside it and before its first unskippable field: the slices of
\* their payloads
ExpectedChildren(parent, tag) ==
    CollectChildren(parent, MatchesUpToUnskippable(Bytes(parent), tag, 0), 1)

SrcsOf(nodes) == [x \in 1..Len(nodes) |-> nodes[x].src]

\* the nodes yielded at each level of the walk of the tree
YieldedScopes(self) ==
    UNION {{<<rl, sl>> : sl \in {ResourceLogs_scopes(rl)[j] :
                                    j \in 1..Len(ResourceLogs_scopes(rl))}} :
           rl \in {LogsData_resources(self)[i] : i \in 1..Len(LogsData_resources(self))}}

YieldedRecords(self) ==
    UNION {{<<p[2], r>> : r \in {ScopeLogs_log_records(p[2])[k] :
                                     k \in 1..Len(ScopeLogs_log_records(p[2]))}} :
           p \in YieldedScopes(self)}

YieldedAttributes(self) ==
    UNION {{<<p[2], kv>> : kv \in {LogRecord_attributes(p[2])[a] :
                                      a \in 1..Len(LogRecord_attributes(p[2]))}} :
           p \in YieldedRecords(self)}

\* C1: after any sequence of parse calls, resources() yields exactly the
\* resource groups of the most recent buffer, scopes() and log_records()
\* exactly the children of the group and the scope they are called on,
\* attributes() only attributes of its record, and every node yielded at any
\* level was written by the most recent parse.
C1_ReuseNeverExposesStaleEntries ==
    phase = "parsed" =>
        /\ SrcsOf(LogsData_resources(logs)) = ExpectedChildren(Whole(buf), 1)
        /\ \A i \in 1..Len(LogsData_resources(logs)) :
               /\ LogsData_resources(logs)[i].gen = gen
               /\ SrcsOf(ResourceLogs_scopes(LogsData_resources(logs)[i]))
                      = ExpectedChildren(LogsData_resources(logs)[i].src, 2)
        /\ \A p \in YieldedScopes(logs) :
               /\ p[2].gen = gen
               /\ SrcsOf(ScopeLogs_log_records(p[2])) = ExpectedChildren(p[2].src, 2)
        /\ \A p \in YieldedRecords(logs) : p[2].gen = gen
        /\ \A p \in YieldedAttributes(logs) :
               /\ p[2].gen = gen
               /\ \E x \in 1..Len(ExpectedChildren(p[1].src, 6)) :
                      ExpectedChildren(p[1].src, 6)[x] = p[2].src

\* a buffer of one resource group parsed into an instance whose pool holds the
\* three groups of an earlier buffer: one group is yielded
C1_Witness_ThreeThenOne ==
    /\ phase = "parsed"
    /\ gen >= 2
    /\ Len(logs.resource_logs) = 3
    /\ logs.resource_logs[3].gen < gen
    /\ Len(ExpectedChildren(Whole(buf), 1)) = 1
    /\ Len(LogsData_resources(logs)) = 1

\* C2: parse(A) then parse(B) on the same instance leaves the observable state
\* and the return value of a new instance on which only parse(B) was called;
\* this holds for A = B as well.
C2_ReparseEqualsFreshParse ==
    LET fresh == LogsData_parse(LogsData_new, Whole(buf), gen)
    IN  /\ phase = "parsed" =>
               /\ ~fresh.panic
               /\ out.ok = fresh.ok
               /\ LogsDataView(logs) = LogsDataView(fresh.node)
        /\ phase = "panicked" => fresh.panic

\* a second parse into an instance whose pools hold more nodes, at every
\* level, than the buffer uses
C2_Witness_PoolLargerThanUse ==
    /\ phase = "parsed"
    /\ gen >= 2
    /\ logs.used_count >= 1
    /\ Len(logs.resource_logs) > logs.used_count
    /\ \E p \in YieldedScopes(logs) :
           /\ Len(p[1].scope_logs) > p[1].scope_logs_used
           /\ Len(p[2].log_records) > p[2].log_records_used
    /\ \E p \in YieldedRecords(logs) : Len(p[2].attributes) > p[2].attributes_used

\* the child range lies inside the parent range, in the same buffer
Within(child, parent) ==
    /\ child.b = parent.b
    /\ parent.lo <= child.lo
    /\ child.lo <= child.hi
    /\ child.hi <= parent.hi

\* an Option<&str> or Option<&[u8]> field lies inside the node's bytes
FieldWithin(field, parent) == IsSome(field) => Within(field[1], parent)

\* every range an eager value holds, nested values included, lies inside the
\* parent range
RECURSIVE ValueWithin(_, _)
ValueWithin(val, parent) ==
    LET x == val.value
    IN  CASE x.type \in {"String", "Bytes"} -> Within(x.s, parent)
          [] x.type = "Array" ->
                 \A n \in 1..Len(x.items) : ValueWithin(x.items[n], parent)
          [] x.type = "KvList" ->
                 \A n \in 1..Len(x.items) :
                     /\ Within(x.items[n].src, parent)
                     /\ Within(x.items[n].key, x.items[n].src)
                     /\ IsSome(x.items[n].value) =>
                            ValueWithin(x.items[n].value[1], x.items[n].src)
          [] OTHER -> TRUE

\* a yielded attribute and everything it holds lie inside the parent range
KeyValueWithin(kv, parent) ==
    /\ Within(kv.src, parent)
    /\ Within(kv.key, kv.src)
    /\ IsSome(kv.value) => ValueWithin(kv.value[1], kv.src)

KeyValuesWithin(node, parent) ==
    \A a \in 1..node.attributes_used : KeyValueWithin(node.attributes[a], parent)

\* the ranges held by the eager tree
EagerRangesContained ==
    /\ \A i \in 1..Len(LogsData_resources(logs)) :
           LET rl == LogsData_resources(logs)[i]
           IN  /\ Within(rl.src, Whole(buf))
               /\ FieldWithin(rl.schema_url, rl.src)
               /\ IsSome(rl.resource) => KeyValuesWithin(rl.resource[1], rl.src)
    /\ \A p \in YieldedScopes(logs) :
           /\ Within(p[2].src, p[1].src)
           /\ FieldWithin(p[2].schema_url, p[2].src)
           /\ IsSome(p[2].scope) =>
                  /\ FieldWithin(p[2].scope[1].name, p[2].src)
                  /\ FieldWithin(p[2].scope[1].version, p[2].src)
                  /\ KeyValuesWithin(p[2].scope[1], p[2].src)
    /\ \A p \in YieldedRecords(logs) :
           /\ Within(p[2].src, p[1].src)
           /\ FieldWithin(p[2].severity_text, p[2].src)
           /\ FieldWithin(p[2].trace_id, p[2].src)
           /\ FieldWithin(p[2].span_id, p[2].src)
           /\ FieldWithin(p[2].event_name, p[2].src)
           /\ IsSome(p[2].body) => ValueWithin(p[2].body[1], p[2].src)
           /\ KeyValuesWithin(p[2], p[2].src)

\* the ranges held by the items of the lazy iterators over the same buffer
LazyRangesContained ==
    LET root == Whole(buf)
        rls  == resource_logs(root).items
    IN  \A i \in 1..Len(rls) :
            /\ Within(rls[i], root)
            /\ \A j \in 1..Len(scope_logs(rls[i]).items) :
                   LET sl == scope_logs(rls[i]).items[j]
                   IN  /\ Within(sl, rls[i])
                       /\ \A k \in 1..Len(log_records(sl).items) :
                              LET r == log_records(sl).items[k]
                              IN  /\ Within(r, sl)
                                  /\ \A a \in 1..Len(lazy_attributes(r).items) :
                                         Within(lazy_attributes(r).items[a], r)

\* C9: the byte range of every eager node, node field and lazy iterator item is
\* a contiguous subrange of the range of its parent message, and so of the
\* buffer handed to the root.
C9_ByteRangesContained ==
    phase = "parsed" => EagerRangesContained /\ LazyRangesContained

\* a decoded record that holds a trace id, an array body with a string item and
\* a kvlist attribute, each a range of the buffer
C9_Witness_NestedRangesHeld ==
    /\ phase = "parsed"
    /\ \E p \in YieldedRecords(logs) :
           /\ IsSome(p[2].trace_id) /\ DLen(p[2].trace_id[1]) > 0
           /\ IsSome(p[2].body) /\ p[2].body[1].value.type = "Array"
           /\ \E n \in 1..Len(p[2].body[1].value.items) :
                  p[2].body[1].value.items[n].value.type = "String"
           /\ \E a \in 1..p[2].attributes_used :
                  /\ IsSome(p[2].attributes[a].value)
                  /\ p[2].attributes[a].value[1].value.type = "KvList"
    /\ Len(resource_logs(Whole(buf)).items) > 0

-----------------------------------------------------------------------------
(* The field closures of the lazy views, src/src/otlp_bytes_lazy.rs: the same
   and_then chains as the eager ones, over the find_field and
   parse_length_delimited of the lazy ProtobufParser; parse_fixed32 and
   parse_fixed64 are the same bounds test and byte read in both files *)

lazy_span_field(data, tag) ==
    The({ IF f.kind = "panic" THEN FieldPanic
          ELSE IF f.kind = "some" /\ f.wire_type = 2
          THEN The({ IF s.kind = "panic" THEN FieldPanic
                     ELSE IF s.kind = "some" THEN FieldSome(s.bytes)
                     ELSE FieldNone
                     : s \in {lazy_parse_length_delimited(data, f.pos)} })
          ELSE FieldNone
          : f \in {lazy_find_field(data, tag)} })

lazy_str_field(data, tag) ==
    The({ IF f.panic \/ f.v = None THEN f
          ELSE [panic |-> FALSE, v |-> from_utf8_ok(f.v[1])]
          : f \in {lazy_span_field(data, tag)} })

lazy_varint_field(data, tag) ==
    The({ IF f.kind = "panic" THEN FieldPanic
          ELSE IF f.kind = "some" /\ f.wire_type = 0
          THEN The({ IF v.some THEN FieldSome(v.val) ELSE FieldNone
                     : v \in {lazy_parse_varint(data, f.pos)} })
          ELSE FieldNone
          : f \in {lazy_find_field(data, tag)} })

lazy_fixed64_field(data, tag) ==
    The({ IF f.kind = "panic" THEN FieldPanic
          ELSE IF f.kind = "some" /\ f.wire_type = 1
          THEN The({ IF v.some THEN FieldSome(v.val) ELSE FieldNone
                     : v \in {parse_fixed64(data, f.pos)} })
          ELSE FieldNone
          : f \in {lazy_find_field(data, tag)} })

\* if self.parser.find_field(tag).is_some() { Some(iterator at pos 0) } else
\* { None }: the iterator is the message it walks
lazy_present_field(data, tag) ==
    The({ IF f.kind = "panic" THEN FieldPanic
          ELSE IF f.kind = "some" THEN FieldSome(data)
          ELSE FieldNone
          : f \in {lazy_find_field(data, tag)} })

(* AnyValueParser: the seven typed accessors and value_type *)

AnyValueParser_string_value(data) == lazy_str_field(data, 1)

\* .map(|(value, _)| value != 0)
AnyValueParser_bool_value(data) ==
    The({ IF IsSome(f.v) THEN FieldSome(f.v[1] # Zero64) ELSE f
          : f \in {lazy_varint_field(data, 2)} })

AnyValueParser_int_value(data) == lazy_varint_field(data, 3)

AnyValueParser_double_value(data) == lazy_fixed64_field(data, 4)

AnyValueParser_array_value(data) == lazy_present_field(data, 5)

AnyValueParser_kvlist_value(data) == lazy_present_field(data, 6)

AnyValueParser_bytes_value(data) == lazy_span_field(data, 7)

\* the if / else if chain over find_field(1) .. find_field(7); "panic" when a
\* scan panicked
RECURSIVE value_type_from(_, _)
value_type_from(data, tag) ==
    IF tag > 7 THEN "Unknown"
    ELSE The({ IF f.kind = "panic" THEN "panic"
               ELSE IF f.kind = "some"
               THEN <<"String", "Bool", "Int", "Double", "Array", "KvList", "Bytes">>[tag]
               ELSE value_type_from(data, tag + 1)
               : f \in {lazy_find_field(data, tag)} })

\* AnyValueParser::value_type
AnyValueParser_value_type(data) == value_type_from(data, 1)

(* The remaining typed accessors of the eager AnyValue and of the baseline
   AnyValue *)

\* AnyValue::array_value
AnyValue_array_value(self) ==
    IF self.value.type = "Array" THEN Some(self.value.items) ELSE None

\* AnyValue::kvlist_value
AnyValue_kvlist_value(self) ==
    IF self.value.type = "KvList" THEN Some(self.value.items) ELSE None

\* as_array of the baseline: Some(&arr.values) for an ArrayValue; the values
\* of a baseline array or list are kept in n
Prost_as_array(self) ==
    IF IsSome(self.value) /\ self.value[1].type = "Array"
    THEN Some(self.value[1].n) ELSE None

Prost_as_kvlist(self) ==
    IF IsSome(self.value) /\ self.value[1].type = "KeyValueList"
    THEN Some(self.value[1].n) ELSE None

-----------------------------------------------------------------------------
(* Value level: one AnyValue message decoded by the eager AnyValue::parse and
   read through the lazy AnyValueParser, and one baseline AnyValue read through
   its trait accessors *)

\* most fields in a generated AnyValue message
MaxValueFields == 2

\* Fields of an AnyValue message.  Under the wire type of the branch:
\*   tag 1 "a"; tag 2 true; tag 3 5; tag 4 eight bytes; tag 5 an element holding
\*   bool true; tag 6 a pair of key "k"; tag 7 the byte 0xFF.
\* Not so: tag 1 holding the byte 0xFF, which is no UTF-8; tag 1 as a varint;
\* tag 2 length-delimited; tag 4 as a varint; tag 5 as a varint; tag 7 as a
\* varint.
ValueFieldEncodings ==
    { <<10, 1, 97>>, <<16, 1>>, <<24, 5>>, <<33, 1, 2, 3, 4, 5, 6, 7, 8>>,
      <<42, 2, 16, 1>>, <<50, 3, 10, 1, 107>>, <<58, 1, 255>>,
      <<10, 1, 255>>, <<8, 1>>, <<18, 0>>, <<32, 1>>, <<40, 1>>, <<56, 1>>,
      <<10, 5, 97>>,              \* tag 1, a string declaring 5 bytes, cut short
      <<64, 1>>,                  \* tag 8, no branch of a value
      <<66, 255, 255, 255, 255, 255, 255, 255, 255, 255, 1>> }
                                  \* tag 8, a span of 2^64 - 1 bytes

ValueInputs == {Concat(fs) : fs \in SeqsUpTo(ValueFieldEncodings, MaxValueFields)}

\* baseline values: unset, one of each scalar branch, an empty array, an empty list
ProstValues ==
    { ProstUnset,
      ProstValue("String", <<97>>, <<>>), ProstValue("Bool", <<>>, <<1>>),
      ProstValue("Int", <<>>, <<5>>),
      ProstValue("Double", <<>>, <<1, 2, 3, 4, 5, 6, 7, 8>>),
      ProstValue("Bytes", <<255>>, <<>>),
      ProstValue("Array", <<>>, <<>>), ProstValue("KeyValueList", <<>>, <<>>) }

ValueInit ==
    /\ buf \in ValueInputs
    /\ pos = 0
    /\ target = 0
    /\ out = NoOut
    /\ phase = "input"
    /\ NoTree
    /\ NoView

\* AnyValue::new(), parse(buf), then the AnyValueView accessors
ParseValue ==
    /\ phase = "input"
    /\ \E r \in {AnyValue_parse(Whole(buf), 0)} :
         \E v \in {IF r.panic THEN AnyValue_new ELSE r.node} :
           out' = [op |-> "eager_value", panic |-> r.panic, ok |-> r.ok,
                   value     |-> v,
                   results   |-> AnyValue_value_results(v),
                   as_array  |-> AnyValue_array_value(v),
                   as_kvlist |-> AnyValue_kvlist_value(v)]
    /\ phase' = "done"
    /\ UNCHANGED <<buf, pos, target, logs, gen, tree, cache, scans, calls>>

\* AnyValueParser::new(buf), then value_type and the seven typed accessors
ViewValue ==
    /\ phase = "input"
    /\ \E t \in {AnyValueParser_value_type(Whole(buf))},
          s \in {AnyValueParser_string_value(Whole(buf))},
          b \in {AnyValueParser_bool_value(Whole(buf))},
          i \in {AnyValueParser_int_value(Whole(buf))},
          d \in {AnyValueParser_double_value(Whole(buf))},
          a \in {AnyValueParser_array_value(Whole(buf))},
          k \in {AnyValueParser_kvlist_value(Whole(buf))},
          y \in {AnyValueParser_bytes_value(Whole(buf))} :
         out' = [op |-> "lazy_value",
                 panic |-> \/ t = "panic" \/ s.panic \/ b.panic \/ i.panic
                           \/ d.panic \/ a.panic \/ k.panic \/ y.panic,
                 value_type   |-> t,
                 string_value |-> s.v, bool_value   |-> b.v,
                 int_value    |-> i.v, double_value |-> d.v,
                 array_value  |-> a.v, kvlist_value |-> k.v,
                 bytes_value  |-> y.v]
    /\ phase' = "done"
    /\ UNCHANGED <<buf, pos, target, logs, gen, tree, cache, scans, calls>>

\* the AnyValueView accessors on a baseline AnyValue
ReadBaselineValue ==
    /\ phase = "input"
    /\ \E v \in ProstValues :
         out' = [op |-> "baseline_value",
                 value     |-> v,
                 results   |-> Prost_value_results(v),
                 as_array  |-> Prost_as_array(v),
                 as_kvlist |-> Prost_as_kvlist(v)]
    /\ phase' = "done"
    /\ UNCHANGED <<buf, pos, target, logs, gen, tree, cache, scans, calls>>

\* one value typed both ways: AnyValue::new(), parse(buf) with the variant it
\* stored, and AnyValueParser::new(buf).value_type()
TypeValue ==
    /\ phase = "input"
    /\ \E r \in {AnyValue_parse(Whole(buf), 0)},
          t \in {AnyValueParser_value_type(Whole(buf))} :
         out' = [op |-> "value_types",
                 eager |-> [panic |-> r.panic, ok |-> r.ok,
                            type |-> IF r.panic THEN "panic" ELSE r.node.value.type],
                 lazy |-> t]
    /\ phase' = "done"
    /\ UNCHANGED <<buf, pos, target, logs, gen, tree, cache, scans, calls>>

ValueNext == ParseValue \/ ViewValue \/ ReadBaselineValue \/ TypeValue

SpecValue == ValueInit /\ [][ValueNext]_vars

-----------------------------------------------------------------------------
(* Claims on the value level *)

\* The fields of a message from offset s on, as the wire format defines them:
\* [tag, wt, pos, end] for each field, pos the offset of its value and end the
\* offset past it.  A rest that is no sequence of whole fields ends the list
\* with a field of wt -1.
RECURSIVE FieldsOf(_, _)
FieldsOf(bytes, s) ==
    IF s >= Len(bytes) THEN <<>>
    ELSE LET t == plain_parse_varint(Whole(bytes), s)
             e == FieldEnd(bytes, WireOf(t.val), t.pos)
         IN  IF ~t.some \/ e = -1
             THEN << [tag |-> 0, wt |-> -1, pos |-> s, end |-> s] >>
             ELSE << [tag |-> TagOf(t.val), wt |-> WireOf(t.val),
                      pos |-> t.pos, end |-> e] >> \o FieldsOf(bytes, e)

\* the bytes of a length-delimited field f: what follows its length
PayloadOf(bytes, f) ==
    SubSeq(bytes, plain_parse_varint(Whole(bytes), f.pos).pos + 1, f.end)

\* the wire type of the branch of tag t of a Value: string, bool, int, double,
\* array, kvlist, bytes
BranchWire(t) == <<2, 0, 0, 1, 2, 2, 2>>[t]

BranchType(t) == <<"String", "Bool", "Int", "Double", "Array", "KvList", "Bytes">>[t]

\* bytes is a Value message: whole fields only, each of a tag from 1 to 7 under
\* the wire type of its branch, a string branch holding UTF-8
ValueMessage(bytes) ==
    \A i \in 1..Len(FieldsOf(bytes, 0)) :
        LET f == FieldsOf(bytes, 0)[i]
        IN  /\ f.wt # -1
            /\ f.tag \in 1..7
            /\ f.wt = BranchWire(f.tag)
            /\ f.tag = 1 => Utf8ValidFrom(PayloadOf(bytes, f), 1)

\* the tags of the branches that occur in a Value message
PopulatedTags(bytes) ==
    {FieldsOf(bytes, 0)[i].tag : i \in 1..Len(FieldsOf(bytes, 0))}

MinOf(S) == CHOOSE x \in S : \A y \in S : x <= y

\* the payload slots of an AnyValueData that its variant does not use are empty
ExactlyOneBranch(value) ==
    /\ value.type \in {"String", "Bytes"} => value.n = <<>> /\ value.items = <<>>
    /\ value.type \in {"Bool", "Int", "Double"} =>
           value.s = EmptySlice /\ value.items = <<>> /\ value.n # <<>>
    /\ value.type \in {"Array", "KvList"} => value.s = EmptySlice /\ value.n = <<>>

\* C11: for a Value message with one or more populated branches, in whatever
\* order the tags appear on the wire, AnyValue::parse returns true and stores
\* the populated branch of the lowest tag (String, Bool, Int, Double, Array,
\* KvList, Bytes in that order), and only that branch.
C11_FirstPopulatedBranchInTagOrder ==
    (out.op = "eager_value" /\ ValueMessage(buf) /\ PopulatedTags(buf) # {}) =>
        /\ ~out.panic
        /\ out.ok
        /\ out.value.value.type = BranchType(MinOf(PopulatedTags(buf)))
        /\ ExactlyOneBranch(out.value.value)

\* a Value message whose first field on the wire is not the branch stored: two
\* populated branches, the one of the higher tag first
C11_Witness_LaterFieldWins ==
    /\ out.op = "eager_value"
    /\ ValueMessage(buf)
    /\ Cardinality(PopulatedTags(buf)) = 2
    /\ FieldsOf(buf, 0)[1].tag # MinOf(PopulatedTags(buf))
    /\ out.value.value.type = BranchType(MinOf(PopulatedTags(buf)))

\* what C12 says of the trait accessors of a baseline or eager value: a
\* present result comes from the accessor of the reported type only
TraitAccessorsMatchType(o) ==
    /\ IsSome(o.results.as_string) => o.results.value_type = "String"
    /\ IsSome(o.results.as_bool)   => o.results.value_type = "Bool"
    /\ IsSome(o.results.as_int64)  => o.results.value_type = "Int64"
    /\ IsSome(o.results.as_double) => o.results.value_type = "Double"
    /\ IsSome(o.results.as_bytes)  => o.results.value_type = "Bytes"
    /\ IsSome(o.as_array)          => o.results.value_type = "Array"
    /\ IsSome(o.as_kvlist)         => o.results.value_type = "KeyValueList"

\* the same of the accessors of the lazy AnyValueParser
LazyAccessorsMatchType(o) ==
    /\ IsSome(o.string_value) => o.value_type = "String"
    /\ IsSome(o.bool_value)   => o.value_type = "Bool"
    /\ IsSome(o.int_value)    => o.value_type = "Int"
    /\ IsSome(o.double_value) => o.value_type = "Double"
    /\ IsSome(o.bytes_value)  => o.value_type = "Bytes"
    /\ IsSome(o.array_value)  => o.value_type = "Array"
    /\ IsSome(o.kvlist_value) => o.value_type = "KvList"

\* C12: typed accessors never coerce: in each of the three strategies an
\* accessor returns a present result only if its type is the type value_type()
\* reports for the value; for every other type it returns absent.
C12_AccessorsPresentOnlyForReportedType ==
    /\ out.op \in {"eager_value", "baseline_value"} => TraitAccessorsMatchType(out)
    /\ (out.op = "lazy_value" /\ ~out.panic) => LazyAccessorsMatchType(out)

\* What remains of C12 when the lazy view is read on messages in which at most
\* one tag occurs.
C12_HoldsOnSingleTagValues ==
    /\ out.op \in {"eager_value", "baseline_value"} => TraitAccessorsMatchType(out)
    /\ (out.op = "lazy_value" /\ ~out.panic /\ Cardinality(PopulatedTags(buf)) <= 1) =>
           LazyAccessorsMatchType(out)

-----------------------------------------------------------------------------
(* Attribute level: one KeyValue message decoded by KeyValue::parse, alone and
   as the middle one of three attributes of a record, a resource and a scope *)

\* most fields in a generated KeyValue message
MaxKeyValueFields == 2

\* Fields of a KeyValue message: the key "k"; the empty key; a key that is no
\* UTF-8; tag 1 as a varint; a value holding bool true; an empty value
KeyValueFieldEncodings ==
    { <<10, 1, 107>>, <<10, 0>>, <<10, 1, 255>>, <<8, 1>>,
      <<18, 2, 16, 1>>, <<18, 0>> }

KeyValueInputs ==
    {Concat(fs) : fs \in SeqsUpTo(KeyValueFieldEncodings, MaxKeyValueFields)}

\* the nodes that hold attributes, with the tag of the attributes of each
AttributeTagOf == [record |-> 6, resource |-> 1, scope |-> 3]

\* a node message of three attributes: key "a", the generated one, key "b"
ThreeAttributes(tag, bytes) ==
    LET key == 8 * tag + 2
    IN  <<key, 3, 10, 1, 97>> \o <<key, Len(bytes)>> \o bytes \o <<key, 3, 10, 1, 98>>

KeyValueInit ==
    /\ buf \in KeyValueInputs
    /\ pos = 0
    /\ target = 0
    /\ out = NoOut
    /\ phase = "input"
    /\ NoTree
    /\ NoView

\* KeyValue::new(), parse(buf)
ParseKeyValue ==
    /\ phase = "input"
    /\ \E r \in {KeyValue_parse(Whole(buf), 0)} :
         out' = [op |-> "key_value", panic |-> r.panic, ok |-> r.ok,
                 kind |-> "none", used |-> 0,
                 keys |-> IF r.panic THEN <<>> ELSE << KeyValue_key(r.node) >>]
    /\ phase' = "done"
    /\ UNCHANGED <<buf, pos, target, logs, gen, tree, cache, scans, calls>>

\* LogRecord::new(), Resource::new() or InstrumentationScope::new(), parse of
\* the node of three attributes, then the attributes inside the logical length
ParseAttributes(kind) ==
    /\ phase = "input"
    /\ \E r \in { CASE kind = "record" ->
                         LogRecord_parse(LogRecord_new,
                             Whole(ThreeAttributes(AttributeTagOf.record, buf)), 0)
                    [] kind = "resource" ->
                         Resource_parse(Resource_new,
                             Whole(ThreeAttributes(AttributeTagOf.resource, buf)), 0)
                    [] kind = "scope" ->
                         InstrumentationScope_parse(InstrumentationScope_new,
                             Whole(ThreeAttributes(AttributeTagOf.scope, buf)), 0) } :
         out' = IF r.panic
                THEN [op |-> "attributes", panic |-> TRUE, ok |-> FALSE,
                      kind |-> kind, used |-> 0, keys |-> <<>>]
                ELSE [op |-> "attributes", panic |-> FALSE, ok |-> r.ok,
                      kind |-> kind, used |-> r.node.attributes_used,
                      keys |-> [i \in 1..r.node.attributes_used |->
                                   KeyValue_key(r.node.attributes[i])]]
    /\ phase' = "done"
    /\ UNCHANGED <<buf, pos, target, logs, gen, tree, cache, scans, calls>>

KeyValueNext ==
    ParseKeyValue \/ \E kind \in DOMAIN AttributeTagOf : ParseAttributes(kind)

SpecKeyValue == KeyValueInit /\ [][KeyValueNext]_vars

-----------------------------------------------------------------------------
(* Claims on the attribute level *)

\* the first field of the tag in a message of whole fields, as a sequence of at
\* most one field
FirstFieldOf(bytes, tag) ==
    LET fs == FieldsOf(bytes, 0)
        at == {i \in 1..Len(fs) : fs[i].tag = tag /\ fs[i].wt # -1}
    IN  IF at = {} THEN <<>> ELSE << fs[MinOf(at)] >>

\* the message holds a key: its first field of tag 1 is length-delimited,
\* UTF-8 and not empty
HasKey(bytes) ==
    LET f == FirstFieldOf(bytes, 1)
    IN  /\ f # <<>>
        /\ f[1].wt = 2
        /\ PayloadOf(bytes, f[1]) # <<>>
        /\ Utf8ValidFrom(PayloadOf(bytes, f[1]), 1)

\* C13: KeyValue::parse returns false when tag 1 is absent, is not
\* length-delimited, is no valid text or is the empty string, and true
\* otherwise; the enclosing record, resource or scope counts an attribute only
\* when its parse returned true, so that every attribute inside the logical
\* length has a non-empty key.
C13_EmptyKeyNeverCounted ==
    /\ (out.op = "key_value" /\ ~out.panic) => (out.ok <=> HasKey(buf))
    /\ (out.op = "attributes" /\ ~out.panic) =>
           /\ out.used = IF HasKey(buf) THEN 3 ELSE 2
           /\ Len(out.keys) = out.used
           /\ \A i \in 1..Len(out.keys) : out.keys[i] # <<>>
           /\ out.keys[1] = <<97>> /\ out.keys[out.used] = <<98>>

\* an attribute with the empty key between two attributes with keys: two are
\* counted
C13_Witness_EmptyKeyDropped ==
    /\ out.op = "attributes" /\ ~out.panic
    /\ FirstFieldOf(buf, 1) # <<>>
    /\ FirstFieldOf(buf, 1)[1].wt = 2
    /\ PayloadOf(buf, FirstFieldOf(buf, 1)[1]) = <<>>
    /\ out.used = 2

-----------------------------------------------------------------------------
(* LogRecordParser of src/src/otlp_bytes_lazy.rs: the field cache behind a
   OnceCell and the accessors that read through it.  An entry of the cache is
   an Option<(u8, usize)>; the cell is an Option<FieldCache>. *)

\* FieldCache::default()
FieldCache_default ==
    [time_unix_nano |-> None, observed_time_unix_nano |-> None,
     severity_number |-> None, severity_text |-> None, body |-> None,
     attributes |-> <<>>, dropped_attributes_count |-> None, flags |-> None,
     trace_id |-> None, span_id |-> None, event_name |-> None]

\* match tag { 1 => cache.time_unix_nano = Some((wire_type, pos)), ... }
cache_field(c, tag, wt, p) ==
    CASE tag = 1  -> [c EXCEPT !.time_unix_nano = Some(<<wt, p>>)]
      [] tag = 2  -> [c EXCEPT !.severity_number = Some(<<wt, p>>)]
      [] tag = 3  -> [c EXCEPT !.severity_text = Some(<<wt, p>>)]
      [] tag = 5  -> [c EXCEPT !.body = Some(<<wt, p>>)]
      [] tag = 6  -> [c EXCEPT !.attributes = Append(@, <<wt, p>>)]
      [] tag = 7  -> [c EXCEPT !.dropped_attributes_count = Some(<<wt, p>>)]
      [] tag = 8  -> [c EXCEPT !.flags = Some(<<wt, p>>)]
      [] tag = 9  -> [c EXCEPT !.trace_id = Some(<<wt, p>>)]
      [] tag = 10 -> [c EXCEPT !.span_id = Some(<<wt, p>>)]
      [] tag = 11 -> [c EXCEPT !.observed_time_unix_nano = Some(<<wt, p>>)]
      [] tag = 12 -> [c EXCEPT !.event_name = Some(<<wt, p>>)]
      [] OTHER    -> c

\* the closure handed to get_or_init: the while loop from position p with the
\* cache built so far; [panic, cache]
RECURSIVE get_cache_loop(_, _, _)
get_cache_loop(data, p, c) ==
    IF p >= DLen(data) THEN [panic |-> FALSE, cache |-> c]
    ELSE The({
      IF ~t.some THEN [panic |-> FALSE, cache |-> c]
      ELSE The({
        LET wt   == WireOf(t.val)
            done == [panic |-> FALSE, cache |-> here]
        IN  IF wt = 0
            THEN The({ IF v.some THEN get_cache_loop(data, v.pos, here) ELSE done
                       : v \in {lazy_parse_varint(data, t.pos)} })
            ELSE IF wt = 1
            THEN IF t.pos + 8 <= DLen(data)
                 THEN get_cache_loop(data, t.pos + 8, here)
                 ELSE done
            ELSE IF wt = 2
            THEN The({ IF s.kind = "panic" THEN [panic |-> TRUE, cache |-> c]
                       ELSE IF s.kind = "some"
                       THEN get_cache_loop(data, s.pos, here)
                       ELSE done
                       : s \in {lazy_parse_length_delimited(data, t.pos)} })
            ELSE IF wt = 5
            THEN IF t.pos + 4 <= DLen(data)
                 THEN get_cache_loop(data, t.pos + 4, here)
                 ELSE done
            ELSE done
        : here \in {cache_field(c, TagOf(t.val), WireOf(t.val), t.pos)} })
      : t \in {lazy_parse_varint(data, p)} })

\* get_cache with a cell that is initialised on every call
get_cache_rescans(cell, data) ==
    The({ [panic |-> r.panic, scanned |-> TRUE,
           cell |-> IF r.panic THEN None ELSE Some(r.cache)]
          : r \in {get_cache_loop(data, 0, FieldCache_default)} })

\* LogRecordParser::get_cache: self.cache.get_or_init(closure).  The closure
\* runs only when the cell is empty; a closure that panics leaves it empty.
\* [panic, scanned, cell]: scanned tells that the closure ran
get_cache(cell, data) ==
    IF IsSome(cell) THEN [panic |-> FALSE, scanned |-> FALSE, cell |-> cell]
    ELSE The({ [panic |-> r.panic, scanned |-> TRUE,
                cell |-> IF r.panic THEN None ELSE Some(r.cache)]
               : r \in {get_cache_loop(data, 0, FieldCache_default)} })

\* if let Some((wire_type, pos)) = entry { if wire_type == wt { .. pos .. } }:
\* the position, when the entry is set and of that wire type
cached_at(entry, wt) ==
    IF IsSome(entry) /\ entry[1][1] = wt THEN Some(entry[1][2]) ELSE None

\* parse_length_delimited(pos).map(|(bytes, _)| bytes) at a cached position
cached_span(data, entry) ==
    IF cached_at(entry, 2) = None THEN FieldNone
    ELSE The({ IF s.kind = "panic" THEN FieldPanic
               ELSE IF s.kind = "some" THEN FieldSome(s.bytes)
               ELSE FieldNone
               : s \in {lazy_parse_length_delimited(data, cached_at(entry, 2)[1])} })

\* ... .and_then(|(bytes, _)| std::str::from_utf8(bytes).ok())
cached_str(data, entry) ==
    The({ IF f.panic \/ f.v = None THEN f
          ELSE [panic |-> FALSE, v |-> from_utf8_ok(f.v[1])]
          : f \in {cached_span(data, entry)} })

\* parse_varint(pos).map(|(value, _)| value) at a cached position
cached_varint(data, entry) ==
    IF cached_at(entry, 0) = None THEN FieldNone
    ELSE The({ IF v.some THEN FieldSome(v.val) ELSE FieldNone
               : v \in {lazy_parse_varint(data, cached_at(entry, 0)[1])} })

\* parse_fixed64(pos) / parse_fixed32(pos) at a cached position: n is 8 or 4
cached_fixed(data, entry, n) ==
    IF cached_at(entry, IF n = 8 THEN 1 ELSE 5) = None THEN FieldNone
    ELSE The({ IF v.some THEN FieldSome(v.val) ELSE FieldNone
               : v \in { IF n = 8
                         THEN parse_fixed64(data, cached_at(entry, 1)[1])
                         ELSE parse_fixed32(data, cached_at(entry, 5)[1]) } })

\* an accessor that returns what it found and no default
or_absent(f, zero) == f

\* .unwrap_or(0) and the final 0 of the accessors that return a number
or_default(f, zero) == IF f.panic \/ IsSome(f.v) THEN f ELSE FieldSome(zero)

\* id.len() == n && !id.iter().all(|&b| b == 0) on an Option of bytes
is_id_valid(id, n) ==
    /\ IsSome(id)
    /\ DLen(id[1]) = n
    /\ \E i \in 1..DLen(id[1]) : Bytes(id[1])[i] # 0

\* the accessors of LogRecordParser, by name, on the cache c of the view over
\* data: [panic, v], v the value returned (an Option for the accessors that
\* return one, a sequence with the value for those that return a number or a
\* bool, the items for attributes)
LogRecordParser_accessor(name, data, c) ==
    CASE name = "time_unix_nano" ->
           or_default(cached_fixed(data, c.time_unix_nano, 8), ZeroFixed64)
      [] name = "observed_time_unix_nano" ->
           or_default(cached_fixed(data, c.observed_time_unix_nano, 8), ZeroFixed64)
      [] name = "severity_number" ->
           or_default(as_u32(cached_varint(data, c.severity_number)), Zero64)
      [] name = "severity_text" -> cached_str(data, c.severity_text)
      [] name = "body" -> cached_span(data, c.body)
      [] name = "attributes" ->
           The({ [panic |-> a.panic, v |-> a.items]
                 : a \in {cached_attribute_items(data, c.attributes, 0, <<>>)} })
      [] name = "dropped_attributes_count" ->
           as_u32(cached_varint(data, c.dropped_attributes_count))
      [] name = "flags" -> cached_fixed(data, c.flags, 4)
      [] name = "trace_id" -> cached_span(data, c.trace_id)
      [] name = "span_id" -> cached_span(data, c.span_id)
      [] name = "event_name" -> cached_str(data, c.event_name)
      [] name = "is_trace_id_valid" ->
           The({ [panic |-> f.panic, v |-> << is_id_valid(f.v, 16) >>]
                 : f \in {cached_span(data, c.trace_id)} })
      [] name = "is_span_id_valid" ->
           The({ [panic |-> f.panic, v |-> << is_id_valid(f.v, 8) >>]
                 : f \in {cached_span(data, c.span_id)} })
      [] name = "trace_flags" ->
           The({ IF IsSome(f.v) THEN [f EXCEPT !.v = Some(f.v[1][1])] ELSE f
                 : f \in {cached_fixed(data, c.flags, 4)} })

AccessorNames ==
    {"time_unix_nano", "observed_time_unix_nano", "severity_number",
     "severity_text", "body", "attributes", "dropped_attributes_count", "flags",
     "trace_id", "span_id", "event_name", "is_trace_id_valid",
     "is_span_id_valid", "trace_flags"}

\* the same names read on an eager LogRecord: the fields, LogRecord::
\* is_trace_id_valid, is_span_id_valid and trace_flags, and the used attributes
LogRecord_accessor(name, self) ==
    CASE name = "time_unix_nano" -> self.time_unix_nano
      [] name = "observed_time_unix_nano" -> Some(self.observed_time_unix_nano)
      [] name = "severity_number" -> Some(self.severity_number)
      [] name = "severity_text" -> self.severity_text
      [] name = "body" -> self.body
      [] name = "attributes" -> LogRecord_attributes(self)
      [] name = "dropped_attributes_count" -> self.dropped_attributes_count
      [] name = "flags" -> self.flags
      [] name = "trace_id" -> self.trace_id
      [] name = "span_id" -> self.span_id
      [] name = "event_name" -> self.event_name
      [] name = "is_trace_id_valid" -> << is_id_valid(self.trace_id, 16) >>
      [] name = "is_span_id_valid" -> << is_id_valid(self.span_id, 8) >>
      [] name = "trace_flags" ->
           IF IsSome(self.flags) THEN Some(self.flags[1][1]) ELSE None

-----------------------------------------------------------------------------
(* Record access level: one LogRecord message read field by field, by the
   eager LogRecord after its parse and by a LogRecordParser over the same
   bytes. *)

MaxAccessFields == 2

AccessFieldEncodings ==
    { <<9, 1, 0, 0, 0, 0, 0, 0, 0>>,            \* 1 time_unix_nano: fixed64
      <<8, 5>>,                                  \* 1 as a varint
      <<10, 255, 255, 255, 255, 255, 255, 255, 255, 255, 1>>,
                                                 \* 1 as a span of 2^64 - 1 bytes
      <<16, 9>>,                                 \* 2 severity_number: varint
      <<21, 1, 0, 0, 0>>,                        \* 2 as a fixed32
      <<26, 1, 97>>,                             \* 3 severity_text: "a"
      <<24, 1>>,                                 \* 3 as a varint
      <<42, 2, 16, 1>>,                          \* 5 body: bool
      <<40, 1>>,                                 \* 5 as a varint
      <<50, 3, 10, 1, 107>>,                     \* 6 attribute, key "k"
      <<56, 3>>,                                 \* 7 dropped_attributes_count
      <<58, 0>>,                                 \* 7 as an empty span
      <<69, 1, 0, 0, 0>>,                        \* 8 flags: fixed32
      <<64, 1>>,                                 \* 8 as a varint
      <<74, 16, 1, 2, 3, 4, 5, 6, 7, 8, 9, 10, 11, 12, 13, 14, 15, 16>>,
                                                 \* 9 trace_id
      <<74, 16, 0, 0, 0, 0, 0, 0, 0, 0, 0, 0, 0, 0, 0, 0, 0, 0>>,
                                                 \* 9 of sixteen zero bytes
      <<74, 2, 1, 2>>,                           \* 9 of two bytes
      <<72, 1>>,                                 \* 9 as a varint
      <<82, 8, 1, 2, 3, 4, 5, 6, 7, 8>>,         \* 10 span_id
      <<82, 8, 0, 0, 0, 0, 0, 0, 0, 0>>,         \* 10 of eight zero bytes
      <<82, 9, 1, 2, 3, 4, 5, 6, 7, 8, 9>>,      \* 10 of nine bytes
      <<80, 1>>,                                 \* 10 as a varint
      <<89, 2, 0, 0, 0, 0, 0, 0, 128>>,          \* 11 observed_time_unix_nano
      <<88, 5>>,                                 \* 11 as a varint
      <<89, 7>>,                                 \* 11 cut short
      <<98, 1, 101>>,                            \* 12 event_name: "e"
      <<101, 1, 0, 0, 0>>,                       \* 12 as a fixed32
      <<51>> }                                   \* tag 6, wire type 3

\* the encodings that follow a first field: a second identifier or timestamp,
\* of the same tag or not, of the prescribed wire type or not, and the field
\* that cannot be skipped
FollowingFieldEncodings ==
    { <<74, 16, 1, 2, 3, 4, 5, 6, 7, 8, 9, 10, 11, 12, 13, 14, 15, 16>>,
      <<74, 16, 0, 0, 0, 0, 0, 0, 0, 0, 0, 0, 0, 0, 0, 0, 0, 0>>,
      <<72, 1>>,
      <<82, 8, 1, 2, 3, 4, 5, 6, 7, 8>>,
      <<82, 8, 0, 0, 0, 0, 0, 0, 0, 0>>,
      <<89, 2, 0, 0, 0, 0, 0, 0, 128>>,
      <<88, 5>>,
      <<9, 1, 0, 0, 0, 0, 0, 0, 0>>,
      <<51>> }

\* no field, or one field of any encoding followed by fewer than
\* MaxAccessFields of the following encodings
AccessInputs ==
    { first \o Concat(fs) :
        first \in AccessFieldEncodings \union {<<>>},
        fs \in SeqsUpTo(FollowingFieldEncodings, MaxAccessFields - 1) }

AccessInit ==
    /\ buf \in AccessInputs
    /\ pos = 0
    /\ target = 0
    /\ out = NoOut
    /\ phase = "input"
    /\ NoTree
    /\ NoView

\* LogRecord::new(), parse(buf), then the accessor of that name
ReadRecord(name) ==
    /\ phase = "input"
    /\ \E r \in {LogRecord_parse(LogRecord_new, Whole(buf), 1)} :
         out' = [op |-> "eager", name |-> name, panic |-> r.panic,
                 v |-> IF r.panic THEN <<>> ELSE LogRecord_accessor(name, r.node)]
    /\ phase' = "done"
    /\ UNCHANGED <<buf, pos, target, logs, gen, tree, cache, scans, calls>>

\* LogRecordParser::new(buf), then the accessor of that name: the first call
\* on a new view, which fills its cache
ViewRecord(name) ==
    /\ phase = "input"
    /\ \E g \in {get_cache(None, Whole(buf))} :
         out' = IF g.panic
                THEN [op |-> "lazy", name |-> name, panic |-> TRUE, v |-> <<>>]
                ELSE The({ [op |-> "lazy", name |-> name, panic |-> r.panic,
                            v |-> IF r.panic THEN <<>> ELSE r.v]
                           : r \in {LogRecordParser_accessor(name, Whole(buf), g.cell[1])} })
    /\ phase' = "done"
    /\ UNCHANGED <<buf, pos, target, logs, gen, tree, cache, scans, calls>>

-----------------------------------------------------------------------------
(* The record view without a cache, src/src/Untitled-1.rs: every accessor is a
   find_field of its tag, over the byte-at-a-time varint and an unchecked
   length-delimited read like those of otlp_bytes.rs *)

\* src/src/Untitled-1.rs, find_field: the loop from position p
RECURSIVE uncached_find_loop(_, _, _)
uncached_find_loop(data, target_tag, p) ==
    IF p < DLen(data)
    THEN The({
      IF ~t.some THEN NoField
      ELSE LET p1 == t.pos
               wt == WireOf(t.val)
           IN  IF TagOf(t.val) = target_tag THEN SomeField(wt, p1)
               ELSE CASE wt = 0 ->
                             The({ IF v.some
                                   THEN uncached_find_loop(data, target_tag, v.pos)
                                   ELSE NoField
                                   : v \in {parse_varint(data, p1)} })
                      [] wt = 1 ->
                             IF p1 + 8 <= DLen(data)
                             THEN uncached_find_loop(data, target_tag, p1 + 8)
                             ELSE NoField
                      [] wt = 2 ->
                             The({ IF s.kind = "some"
                                   THEN uncached_find_loop(data, target_tag, s.pos)
                                   ELSE IF s.kind = "none" THEN NoField
                                   ELSE PanicField
                                   : s \in {parse_length_delimited(data, p1)} })
                      [] wt = 5 ->
                             IF p1 + 4 <= DLen(data)
                             THEN uncached_find_loop(data, target_tag, p1 + 4)
                             ELSE NoField
                      [] OTHER -> NoField
      : t \in {parse_varint(data, p)} })
    ELSE NoField

\* src/src/Untitled-1.rs, find_field: pos = 0
uncached_find_field(data, target_tag) == uncached_find_loop(data, target_tag, 0)

\* find_field(tag).and_then(|(wire_type, pos)| if wire_type == wt { read(pos) }
\* else { None }), read being parse_length_delimited, parse_varint,
\* parse_fixed64 or parse_fixed32
uncached_field(data, tag, wt) ==
    The({ IF f.kind = "panic" THEN FieldPanic
          ELSE IF f.kind = "some" /\ f.wire_type = wt
          THEN CASE wt = 2 ->
                      The({ IF s.kind = "panic" THEN FieldPanic
                            ELSE IF s.kind = "some" THEN FieldSome(s.bytes)
                            ELSE FieldNone
                            : s \in {parse_length_delimited(data, f.pos)} })
                 [] wt = 0 ->
                      The({ IF v.some THEN FieldSome(v.val) ELSE FieldNone
                            : v \in {parse_varint(data, f.pos)} })
                 [] wt = 1 ->
                      The({ IF v.some THEN FieldSome(v.val) ELSE FieldNone
                            : v \in {parse_fixed64(data, f.pos)} })
                 [] wt = 5 ->
                      The({ IF v.some THEN FieldSome(v.val) ELSE FieldNone
                            : v \in {parse_fixed32(data, f.pos)} })
          ELSE FieldNone
          : f \in {uncached_find_field(data, tag)} })

\* .and_then(|(bytes, _)| std::str::from_utf8(bytes).ok())
uncached_str(f) ==
    IF f.panic \/ f.v = None THEN f ELSE [panic |-> FALSE, v |-> from_utf8_ok(f.v[1])]

\* the accessors of the LogRecordParser of src/src/Untitled-1.rs, by name:
\* [panic, v], v an Option, or a sequence with the bool
UncachedLogRecordParser_accessor(name, data) ==
    CASE name = "time_unix_nano" -> uncached_field(data, 1, 1)
      [] name = "observed_time_unix_nano" -> uncached_field(data, 11, 1)
      [] name = "severity_number" -> as_u32(uncached_field(data, 2, 0))
      [] name = "severity_text" -> uncached_str(uncached_field(data, 3, 2))
      [] name = "body" -> uncached_field(data, 5, 2)
      [] name = "dropped_attributes_count" -> as_u32(uncached_field(data, 7, 0))
      [] name = "flags" -> uncached_field(data, 8, 5)
      [] name = "trace_id" -> uncached_field(data, 9, 2)
      [] name = "span_id" -> uncached_field(data, 10, 2)
      [] name = "event_name" -> uncached_str(uncached_field(data, 12, 2))
      [] name = "is_trace_id_valid" ->
           The({ [panic |-> f.panic, v |-> << is_id_valid(f.v, 16) >>]
                 : f \in {uncached_field(data, 9, 2)} })
      [] name = "is_span_id_valid" ->
           The({ [panic |-> f.panic, v |-> << is_id_valid(f.v, 8) >>]
                 : f \in {uncached_field(data, 10, 2)} })
      [] name = "trace_flags" ->
           The({ IF IsSome(f.v) THEN [f EXCEPT !.v = Some(f.v[1][1])] ELSE f
                 : f \in {uncached_field(data, 8, 5)} })

\* the accessors that read one singular field
SingularAccessorNames == AccessorNames \ {"attributes"}

\* the value of an accessor that returns a number, as the view with a cache
\* returns it: unwrap_or(0) on the Option
DefaultOf(name) ==
    IF name \in {"time_unix_nano", "observed_time_unix_nano"} THEN Some(ZeroFixed64)
    ELSE IF name = "severity_number" THEN Some(Zero64)
    ELSE None

\* one record read by a view with a cache and by one without, both new
LookupRecord(name) ==
    /\ phase = "input"
    /\ name \in SingularAccessorNames
    /\ \E g \in {get_cache(None, Whole(buf))},
          u \in {UncachedLogRecordParser_accessor(name, Whole(buf))} :
         out' = [op |-> "lookup", name |-> name,
                 found |-> [panic |-> u.panic,
                            v |-> IF u.panic THEN <<>>
                                  ELSE IF u.v = None THEN DefaultOf(name) ELSE u.v],
                 cached |-> IF g.panic THEN [panic |-> TRUE, v |-> <<>>]
                            ELSE The({ [panic |-> r.panic,
                                        v |-> IF r.panic THEN <<>> ELSE r.v]
                                       : r \in {LogRecordParser_accessor(
                                                    name, Whole(buf), g.cell[1])} })]
    /\ phase' = "done"
    /\ UNCHANGED <<buf, pos, target, logs, gen, tree, cache, scans, calls>>

AccessNext ==
    \E name \in AccessorNames :
        ReadRecord(name) \/ ViewRecord(name) \/ LookupRecord(name)

SpecAccess == AccessInit /\ [][AccessNext]_vars

\* the field of the tag that holds the value of a singular field of the
\* message, as the wire format defines it: the last field of that tag among the
\* fields the scan meets; a sequence of at most one <<wire type, position>>
LastOf(bytes, tag) ==
    LET m == MatchesUpToUnskippable(bytes, tag, 0)
    IN  IF m = <<>> THEN <<>> ELSE << m[Len(m)] >>

\* the bytes of a located field when it is length-delimited and inside the
\* message: Option of a sequence of bytes
SpanAt(bytes, located) ==
    IF located # <<>> /\ located[1][1] = 2
       /\ FieldEnd(bytes, 2, located[1][2]) # -1
    THEN Some(SubSeq(bytes,
                     plain_parse_varint(Whole(bytes), located[1][2]).pos + 1,
                     FieldEnd(bytes, 2, located[1][2])))
    ELSE None

\* an identifier is valid: present, n bytes long, not all zero
ValidId(id, n) ==
    /\ IsSome(id)
    /\ Len(id[1]) = n
    /\ \E i \in 1..Len(id[1]) : id[1][i] # 0

\* C14: is_trace_id_valid is true exactly when the record's trace_id is
\* present, 16 bytes long and not all zero; is_span_id_valid the same with 8
\* bytes; the eager and the lazy strategy give the same answers for the same
\* bytes.
C14_IdValidityAgreesAcrossStrategies ==
    (out.op \in {"eager", "lazy"} /\ ~out.panic) =>
        /\ out.name = "is_trace_id_valid" =>
               (out.v[1] <=> ValidId(SpanAt(buf, LastOf(buf, 9)), 16))
        /\ out.name = "is_span_id_valid" =>
               (out.v[1] <=> ValidId(SpanAt(buf, LastOf(buf, 10)), 8))

\* What remains of C14 on the records that carry each identifier at most
\* once: both strategies answer by presence, length and content.
C14_HoldsWithoutRepeatedIds ==
    (out.op \in {"eager", "lazy"} /\ ~out.panic) =>
        /\ (out.name = "is_trace_id_valid"
            /\ Len(MatchesUpToUnskippable(buf, 9, 0)) <= 1) =>
               (out.v[1] <=> ValidId(SpanAt(buf, LastOf(buf, 9)), 16))
        /\ (out.name = "is_span_id_valid"
            /\ Len(MatchesUpToUnskippable(buf, 10, 0)) <= 1) =>
               (out.v[1] <=> ValidId(SpanAt(buf, LastOf(buf, 10)), 8))

\* the eager record answers by the first trace_id of the bytes, the view by
\* the last: a valid identifier followed by a second one that is not valid
C14_EagerReadsFirstLazyReadsLast ==
    (out.op \in {"eager", "lazy"} /\ out.name = "is_trace_id_valid" /\ ~out.panic
     /\ Len(MatchesUpToUnskippable(buf, 9, 0)) = 2
     /\ ValidId(SpanAt(buf, << MatchesUpToUnskippable(buf, 9, 0)[1] >>), 16)
     /\ ~ValidId(SpanAt(buf, LastOf(buf, 9)), 16)) =>
        /\ out.op = "eager" => out.v[1]
        /\ out.op = "lazy" => ~out.v[1]

\* the singular fields of a LogRecord: tag and prescribed wire type
SingularFields ==
    [time_unix_nano |-> <<1, 1>>, observed_time_unix_nano |-> <<11, 1>>,
     severity_number |-> <<2, 0>>, severity_text |-> <<3, 2>>, body |-> <<5, 2>>,
     dropped_attributes_count |-> <<7, 0>>, flags |-> <<8, 5>>,
     trace_id |-> <<9, 2>>, span_id |-> <<10, 2>>, event_name |-> <<12, 2>>]

\* the occurrence of the tag that the strategy's lookup locates: the first for
\* the eager find_field, the last for the cache of the view
LocatedBy(op, bytes, tag) ==
    LET m == MatchesUpToUnskippable(bytes, tag, 0)
    IN  IF m = <<>> THEN <<>>
        ELSE IF op = "eager" THEN << m[1] >> ELSE LastOf(bytes, tag)

\* what an accessor returns for a field that is absent: 0 for the accessors
\* that return a number, None for those that return an Option
AbsentResult(op, name) ==
    IF name = "observed_time_unix_nano" THEN Some(ZeroFixed64)
    ELSE IF name = "severity_number" THEN Some(Zero64)
    ELSE IF name = "time_unix_nano" /\ op = "lazy" THEN Some(ZeroFixed64)
    ELSE None

\* the accessor read in this state found its tag under another wire type
MismatchLocated ==
    /\ out.op \in {"eager", "lazy"}
    /\ out.name \in DOMAIN SingularFields
    /\ LocatedBy(out.op, buf, SingularFields[out.name][1]) # <<>>
    /\ LocatedBy(out.op, buf, SingularFields[out.name][1])[1][1]
           # SingularFields[out.name][2]

\* C15: when the located occurrence of a singular field's tag carries a wire
\* type other than the prescribed one, the accessor returns absent, or 0 for
\* the accessors with a default, and never an error nor a reinterpreted value.
C15_WireTypeMismatchIsAbsence ==
    MismatchLocated => ~out.panic /\ out.v = AbsentResult(out.op, out.name)

\* What remains of C15 when a read that panicked is left aside.
C15_HoldsUnlessPanic ==
    (MismatchLocated /\ ~out.panic) => out.v = AbsentResult(out.op, out.name)

\* the reads that panic are those of a record holding a length-delimited field
\* whose declared length overflows the position (the first encoding of tag 1
\* as a span)
C15_PanicOnlyOnOverflowingLength ==
    (out.op \in {"eager", "lazy"} /\ out.panic) =>
        \E i \in 1..Len(buf) :
            /\ i + 10 <= Len(buf)
            /\ SubSeq(buf, i, i + 10)
                   = <<10, 255, 255, 255, 255, 255, 255, 255, 255, 255, 1>>

-----------------------------------------------------------------------------
(* Text level: the string fields of every message kind, read from one message
   by the eager tree and by the lazy views. *)

\* ResourceLogsParser::schema_url
ResourceLogsParser_schema_url(data) == lazy_str_field(data, 3)

\* ScopeLogsParser::scope
ScopeLogsParser_scope(data) == lazy_span_field(data, 1)

\* ScopeLogsParser::schema_url
ScopeLogsParser_schema_url(data) == lazy_str_field(data, 3)

\* ScopeLogsParser::scope_name: std::str::from_utf8(bytes).unwrap_or(""), and
\* "" when the scope or its name is not there
ScopeLogsParser_scope_name(data) ==
    The({ IF s.panic THEN FieldPanic
          ELSE IF s.v = None THEN FieldSome(EmptySlice)
          ELSE The({ IF n.panic THEN FieldPanic
                     ELSE IF n.v = None THEN FieldSome(EmptySlice)
                     ELSE The({ FieldSome(IF IsSome(t) THEN t[1] ELSE EmptySlice)
                                : t \in {from_utf8_ok(n.v[1])} })
                     : n \in {lazy_span_field(s.v[1], 1)} })
          : s \in {ScopeLogsParser_scope(data)} })

\* ScopeLogsParser::scope_version: None for a version that is empty
ScopeLogsParser_scope_version(data) ==
    The({ IF s.panic THEN FieldPanic
          ELSE IF s.v = None THEN FieldNone
          ELSE The({ IF n.panic THEN FieldPanic
                     ELSE IF n.v = None THEN FieldNone
                     ELSE The({ IF IsSome(t) /\ DLen(t[1]) # 0 THEN FieldSome(t[1])
                                ELSE FieldNone
                                : t \in {from_utf8_ok(n.v[1])} })
                     : n \in {lazy_span_field(s.v[1], 2)} })
          : s \in {ScopeLogsParser_scope(data)} })

\* KeyValueParser::key
KeyValueParser_key(data) == lazy_str_field(data, 1)

TextKinds ==
    {"resource_schema_url", "scope_schema_url", "severity_text", "event_name",
     "scope_name", "scope_version", "key", "string_value"}

\* an Option<&str> as an Option of its bytes
OptionBytes(o) == IF IsSome(o) THEN Some(Bytes(o[1])) ELSE None

\* the string field of that kind read from the eager node of its message after
\* parse(data): [panic, v], v an Option of the text, or the text itself for the
\* scope name of the ScopeLogsView trait and for the key of a KeyValue
eager_text(kind, data) ==
    CASE kind = "resource_schema_url" ->
           The({ IF r.panic THEN FieldPanic
                 ELSE [panic |-> FALSE, v |-> OptionBytes(r.node.schema_url)]
                 : r \in {ResourceLogs_parse(ResourceLogs_new, data, 1)} })
      [] kind \in {"scope_schema_url", "scope_name", "scope_version"} ->
           The({ IF r.panic THEN FieldPanic
                 ELSE [panic |-> FALSE,
                       v |-> IF kind = "scope_schema_url"
                             THEN OptionBytes(r.node.schema_url)
                             ELSE IF kind = "scope_name" THEN ScopeLogs_scope(r.node)
                             ELSE ScopeLogs_version(r.node)]
                 : r \in {ScopeLogs_parse(ScopeLogs_new, data, 1)} })
      [] kind \in {"severity_text", "event_name"} ->
           The({ IF r.panic THEN FieldPanic
                 ELSE [panic |-> FALSE,
                       v |-> OptionBytes(IF kind = "severity_text"
                                         THEN r.node.severity_text
                                         ELSE r.node.event_name)]
                 : r \in {LogRecord_parse(LogRecord_new, data, 1)} })
      [] kind = "key" ->
           The({ IF r.panic THEN FieldPanic
                 ELSE [panic |-> FALSE, v |-> KeyValue_key(r.node)]
                 : r \in {KeyValue_parse(data, 1)} })
      [] kind = "string_value" ->
           The({ IF r.panic THEN FieldPanic
                 ELSE [panic |-> FALSE,
                       v |-> IF r.ok THEN string_value(r.node) ELSE None]
                 : r \in {AnyValue_parse(data, 1)} })

\* the same field read from a lazy view over data: [panic, v], v an Option of
\* the text, or the text itself for scope_name
lazy_text(kind, data) ==
    The({ IF f.panic THEN FieldPanic
          ELSE IF kind = "scope_name" THEN [panic |-> FALSE, v |-> Bytes(f.v[1])]
          ELSE [panic |-> FALSE, v |-> OptionBytes(f.v)]
          : f \in { CASE kind = "resource_schema_url" -> ResourceLogsParser_schema_url(data)
                      [] kind = "scope_schema_url" -> ScopeLogsParser_schema_url(data)
                      [] kind = "scope_name" -> ScopeLogsParser_scope_name(data)
                      [] kind = "scope_version" -> ScopeLogsParser_scope_version(data)
                      [] kind = "key" -> KeyValueParser_key(data)
                      [] kind = "string_value" -> AnyValueParser_string_value(data)
                      [] kind \in {"severity_text", "event_name"} ->
                           The({ IF g.panic THEN FieldPanic
                                 ELSE LogRecordParser_accessor(kind, data, g.cell[1])
                                 : g \in {get_cache(None, data)} }) } })

MaxTextFields == 2

\* the fields of tags 1, 2, 3 and 12 as text: "a", the byte FF, the lead byte
\* C3 of a two-byte sequence with nothing after it, and the empty string
TextFieldEncodings ==
    { <<key, 1, 97>> : key \in {10, 18, 26, 98} }
      \union { <<key, 1, 255>> : key \in {10, 18, 26, 98} }
      \union { <<key, 1, 195>> : key \in {10, 18, 26, 98} }
      \union { <<key, 0>> : key \in {10, 18, 26, 98} }

FlatTextInputs ==
    { Concat(fs) : fs \in SeqsUpTo(TextFieldEncodings, MaxTextFields) }

\* a message of text fields, bare or as the field of tag 1 of an outer message
\* (the scope of a ScopeLogs)
TextInputs ==
    FlatTextInputs \union { <<10, Len(m)>> \o m : m \in FlatTextInputs }

TextInit ==
    /\ buf \in TextInputs
    /\ pos = 0
    /\ target = 0
    /\ out = NoOut
    /\ phase = "input"
    /\ NoTree
    /\ NoView

\* buf taken as the message that carries the string field of that kind: the
\* field read by the eager node and by the lazy view
ReadText(kind) ==
    /\ phase = "input"
    /\ \E e \in {eager_text(kind, Whole(buf))}, l \in {lazy_text(kind, Whole(buf))} :
         out' = [op |-> "text", kind |-> kind, panic |-> e.panic \/ l.panic,
                 eager |-> e.v, lazy |-> l.v]
    /\ phase' = "done"
    /\ UNCHANGED <<buf, pos, target, logs, gen, tree, cache, scans, calls>>

TextNext == \E kind \in TextKinds : ReadText(kind)

SpecText == TextInit /\ [][TextNext]_vars

\* the tag of the string field of each kind, in the message that holds it
TextTagOf ==
    [resource_schema_url |-> 3, scope_schema_url |-> 3, severity_text |-> 3,
     event_name |-> 12, scope_name |-> 1, scope_version |-> 2, key |-> 1,
     string_value |-> 1]

\* the message that holds the string field of the kind: the bytes themselves,
\* or, for the name and the version of a scope, the scope of the ScopeLogs (its
\* first field of tag 1); <<>> when there is no such scope
HolderOf(kind, bytes) ==
    IF kind \in {"scope_name", "scope_version"}
    THEN SpanAt(bytes, IF MatchesUpToUnskippable(bytes, 1, 0) = <<>> THEN <<>>
                       ELSE << MatchesUpToUnskippable(bytes, 1, 0)[1] >>)
    ELSE Some(bytes)

\* the field a strategy reads for the kind: the last field of the tag for the
\* cache of the record view, the first one everywhere else
TextLocated(strategy, kind, holder) ==
    IF strategy = "lazy" /\ kind \in {"severity_text", "event_name"}
    THEN LastOf(holder, TextTagOf[kind])
    ELSE IF MatchesUpToUnskippable(holder, TextTagOf[kind], 0) = <<>> THEN <<>>
    ELSE << MatchesUpToUnskippable(holder, TextTagOf[kind], 0)[1] >>

\* "missing" when the tag does not occur, "invalid" when the field located is a
\* span of bytes that are no UTF-8, "text" when it is a span of UTF-8, "other"
\* for a field of another wire type
TextStateOf(strategy, kind, bytes) ==
    LET holder == HolderOf(kind, bytes)
    IN  IF holder = None THEN "missing"
        ELSE LET at == TextLocated(strategy, kind, holder[1])
             IN  IF at = <<>> THEN "missing"
                 ELSE IF SpanAt(holder[1], at) = None THEN "other"
                 ELSE IF Utf8ValidFrom(SpanAt(holder[1], at)[1], 1) THEN "text"
                 ELSE "invalid"

\* the text of a field in state "text"
TextOf(strategy, kind, bytes) ==
    SpanAt(HolderOf(kind, bytes)[1],
           TextLocated(strategy, kind, HolderOf(kind, bytes)[1]))[1]

\* what each strategy returns for a string field that is absent
AbsentText(strategy, kind) ==
    IF kind = "scope_name"
    THEN IF strategy = "eager" THEN Str_unknown_scope ELSE <<>>
    ELSE IF kind = "key" /\ strategy = "eager" THEN <<>>
    ELSE None

C16_ValidTextIsReturned ==
    out.op = "text" =>
        /\ (TextStateOf("eager", out.kind, buf) = "text"
            /\ TextOf("eager", out.kind, buf) # <<>>) =>
               out.eager = IF out.kind \in {"scope_name", "key"}
                           THEN TextOf("eager", out.kind, buf)
                           ELSE Some(TextOf("eager", out.kind, buf))
        /\ (TextStateOf("lazy", out.kind, buf) = "text"
            /\ TextOf("lazy", out.kind, buf) # <<>>) =>
               out.lazy = IF out.kind = "scope_name"
                          THEN TextOf("lazy", out.kind, buf)
                          ELSE Some(TextOf("lazy", out.kind, buf))

-----------------------------------------------------------------------------
(* Cache level: one LogRecordParser over buf and a sequence of accessor calls
   on it.  cache is the OnceCell of the view, scans counts the runs of the
   closure of get_cache, calls the accessor calls made.  A call is one step:
   OnceCell is not Sync, so a view cannot be reached from two threads, and the
   closure calls no accessor, so no call starts while another one is inside
   get_or_init. *)

MaxCalls == 2

\* an accessor call on the view: get_cache, then the read at the cached
\* position.  A panic unwinds out of the call and ends the use of the view.
Call(name) ==
    /\ phase \in {"input", "view"}
    /\ calls < MaxCalls
    /\ \E g \in {get_cache(cache, Whole(buf))} :
         /\ cache' = g.cell
         /\ scans' = IF g.scanned THEN scans + 1 ELSE scans
         /\ IF g.panic
            THEN /\ out' = [op |-> "call", name |-> name, panic |-> TRUE,
                            scanned |-> g.scanned, v |-> <<>>]
                 /\ phase' = "panicked"
            ELSE \E r \in {LogRecordParser_accessor(name, Whole(buf), g.cell[1])} :
                   /\ out' = [op |-> "call", name |-> name, panic |-> r.panic,
                              scanned |-> g.scanned,
                              v |-> IF r.panic THEN <<>> ELSE r.v]
                   /\ phase' = IF r.panic THEN "panicked" ELSE "view"
    /\ calls' = calls + 1
    /\ UNCHANGED <<buf, pos, target, logs, gen, tree>>

CacheNext == \E name \in AccessorNames : Call(name)

\* the records a view is opened on: no field, one field of any encoding, or
\* two of the following encodings
CacheInputs ==
    AccessFieldEncodings \union {<<>>}
      \union { a \o b : a \in FollowingFieldEncodings, b \in FollowingFieldEncodings }

\* LogRecordParser::new(buf): the cell is empty
CacheInit ==
    /\ buf \in CacheInputs
    /\ pos = 0
    /\ target = 0
    /\ out = NoOut
    /\ phase = "input"
    /\ NoTree
    /\ NoView

SpecCache == CacheInit /\ [][CacheNext]_vars

\* the cache of a whole scan of the bytes: for every singular field the last
\* field of its tag among those the scan meets, for the attributes every field
\* of tag 6 in wire order
WholeCache(bytes) ==
    [time_unix_nano |-> LastOf(bytes, 1),
     observed_time_unix_nano |-> LastOf(bytes, 11),
     severity_number |-> LastOf(bytes, 2),
     severity_text |-> LastOf(bytes, 3),
     body |-> LastOf(bytes, 5),
     attributes |-> MatchesUpToUnskippable(bytes, 6, 0),
     dropped_attributes_count |-> LastOf(bytes, 7),
     flags |-> LastOf(bytes, 8),
     trace_id |-> LastOf(bytes, 9),
     span_id |-> LastOf(bytes, 10),
     event_name |-> LastOf(bytes, 12)]

\* the cell is empty before the first call and holds the cache of a whole scan
\* after every call; the closure has run once
ScannedOnceAndWhole ==
    /\ calls = 0 => (scans = 0 /\ cache = None)
    /\ (calls > 0 /\ phase # "panicked") =>
           /\ scans = 1
           /\ cache = Some(WholeCache(buf))
           /\ out.scanned <=> calls = 1

\* a call on a view whose cell is set leaves the cell as it is and does not scan
FilledCacheIsKept ==
    cache # None => (cache' = cache /\ scans' = scans)

\* C17: over any sequence of accessor calls on one LogRecordParser the scan of
\* get_cache runs exactly once, on the first call; every later call reads the
\* same cache without scanning again; the cache an accessor reads is that of a
\* whole scan, never a partial one.
C17_CacheComputedOnce == [](ScannedOnceAndWhole) /\ [][FilledCacheIsKept]_vars

\* a later call, of another accessor, on a view whose cache holds a field
C17_Witness_LaterCallReadsCache ==
    /\ calls = MaxCalls
    /\ scans = 1
    /\ out.op = "call"
    /\ ~out.scanned
    /\ cache # None
    /\ cache # Some(FieldCache_default)
    /\ out.name = "trace_id"
    /\ out.v # None

\* the fixed64 a located field holds, 0 when no field is located, when it has
\* another wire type or when fewer than eight bytes follow
Fixed64At(bytes, located) ==
    IF located # <<>> /\ located[1][1] = 1 /\ located[1][2] + 8 <= Len(bytes)
    THEN SubSeq(bytes, located[1][2] + 1, located[1][2] + 8)
    ELSE ZeroFixed64

C18_ObservedTimeDecoded ==
    (out.op \in {"eager", "lazy"} /\ out.name = "observed_time_unix_nano"
     /\ buf = <<89, 2, 0, 0, 0, 0, 0, 0, 128>>) =>
        out.v = Some(<<2, 0, 0, 0, 0, 0, 0, 128>>)

-----------------------------------------------------------------------------
(* Empty iterations *)

\* C19: a node without children of a kind yields an empty iteration, not an
\* error, in the baseline tree, the eager tree and the lazy view: the walks
\* visit every resource group, scope group and record of the tree built, so a
\* payload without resource groups, a resource group without scope groups and
\* a scope group without records give an empty sequence and their siblings are
\* still visited, and a record with zero attributes gives an empty attribute
\* iteration.
C19_NoChildrenGivesEmptyIteration ==
    out.op = "traverse" =>
        LET t == tree[1].resource_logs
            b == out.baseline
            e == out.eager
            l == out.lazy.resources
        IN  /\ ~out.lazy.panic
            /\ Len(b) = Len(t) /\ Len(e) = Len(t) /\ Len(l) = Len(t)
            /\ \A i \in 1..Len(t) :
                 /\ ~l[i].panic
                 /\ Len(b[i].scopes) = Len(t[i].scope_logs)
                 /\ Len(e[i].scopes) = Len(t[i].scope_logs)
                 /\ Len(l[i].scopes) = Len(t[i].scope_logs)
                 /\ \A j \in 1..Len(t[i].scope_logs) :
                      /\ ~l[i].scopes[j].panic
                      /\ Len(b[i].scopes[j].records) = Len(t[i].scope_logs[j].log_records)
                      /\ Len(e[i].scopes[j].records) = Len(t[i].scope_logs[j].log_records)
                      /\ Len(l[i].scopes[j].records) = Len(t[i].scope_logs[j].log_records)
                      /\ \A k \in 1..Len(t[i].scope_logs[j].log_records) :
                           /\ ~l[i].scopes[j].records[k].panic
                           /\ t[i].scope_logs[j].log_records[k].attributes = <<>> =>
                                /\ b[i].scopes[j].records[k].attributes = <<>>
                                /\ e[i].scopes[j].records[k].attributes = <<>>
                                /\ l[i].scopes[j].records[k].attributes = <<>>

\* a tree walked whose second resource group has no scope group and whose
\* second record has no attribute, each after a sibling that has some
C19_Witness_EmptyAfterSibling ==
    /\ out.op = "traverse"
    /\ Len(tree[1].resource_logs) = 2
    /\ tree[1].resource_logs[1].scope_logs # <<>>
    /\ tree[1].resource_logs[2].scope_logs = <<>>
    /\ out.eager[2].scopes = <<>>
    /\ out.lazy.resources[2].scopes = <<>>
    /\ Len(tree[1].resource_logs[1].scope_logs[1].log_records) = 2
    /\ tree[1].resource_logs[1].scope_logs[1].log_records[1].attributes # <<>>
    /\ tree[1].resource_logs[1].scope_logs[1].log_records[2].attributes = <<>>
    /\ out.eager[1].scopes[1].records[2].attributes = <<>>
    /\ out.lazy.resources[1].scopes[1].records[2].attributes = <<>>

\* the payload without resource groups walked: three empty iterations
C19_EmptyPayloadWalked ==
    (out.op = "traverse" /\ tree[1].resource_logs = <<>>) =>
        /\ buf = <<>>
        /\ out.baseline = <<>>
        /\ out.eager = <<>>
        /\ out.lazy = [panic |-> FALSE, resources |-> <<>>]

-----------------------------------------------------------------------------
(* Completeness of find_all *)

\* every field of the message has wire type 0, 1, 2 or 5 and lies inside it
WellFormed(bytes) ==
    \A i \in 1..Len(FieldsOf(bytes, 0)) : FieldsOf(bytes, 0)[i].wt \in {0, 1, 2, 5}

\* the fields of the tag in a well-formed message, in wire order, each as
\* <<wire type, position of its value>>
RECURSIVE OccurrencesIn(_, _)
OccurrencesIn(fields, tag) ==
    IF fields = <<>> THEN <<>>
    ELSE (IF Head(fields).tag = tag
          THEN << <<Head(fields).wt, Head(fields).pos>> >> ELSE <<>>)
         \o OccurrencesIn(Tail(fields), tag)

\* C20: on a message whose fields all have wire type 0, 1, 2 or 5 and lie
\* inside the byte range, find_all(tag) returns one <<wire_type, value_pos>>
\* for every field of the tag and nothing else, in increasing value_pos order.
C20_FindAllCompleteInWireOrder ==
    (out.op = "find_all" /\ WellFormed(buf)) =>
        /\ ~out.all.panic
        /\ out.all.results = OccurrencesIn(FieldsOf(buf, 0), target)
        /\ \A i \in 1..Len(out.all.results) : \A j \in 1..Len(out.all.results) :
               i < j => out.all.results[i][2] < out.all.results[j][2]

\* a well-formed message of three fields, the first and the last of the tag
\* looked for, scanned: two matches
C20_Witness_TwoMatchesAroundAnother ==
    /\ out.op = "find_all"
    /\ WellFormed(buf)
    /\ Len(FieldsOf(buf, 0)) = 3
    /\ FieldsOf(buf, 0)[1].tag = target
    /\ FieldsOf(buf, 0)[2].tag # target
    /\ FieldsOf(buf, 0)[3].tag = target
    /\ Len(out.all.results) = 2

-----------------------------------------------------------------------------
(* The two find_field *)

\* C21: for every byte sequence and every tag the find_field of the eager
\* parser and the find_field of the lazy parser return the same
\* (wire_type, value_pos) or the same absence.
C21_FindFieldsAgree ==
    out.op = "find_first" => out.eager = out.lazy

\* What remains of C21 when the eager scan does not panic: the two results are
\* equal, and the lazy scan does not panic either.
C21_AgreeUnlessEagerPanics ==
    (out.op = "find_first" /\ out.eager.kind # "panic") => out.eager = out.lazy

\* the lazy scan has returned its match where the eager one panics: the match
\* lies before the field whose length overflows
C21_LazyStopsBeforeOverflow ==
    (out.op = "find_first" /\ out.eager.kind = "panic" /\ out.lazy.kind # "panic") =>
        /\ out.lazy.kind = "some"
        /\ out.lazy = FirstOf(MatchesUpToUnskippable(buf, target, 0))

-----------------------------------------------------------------------------
(* Lazy value typing *)

\* the tags from 1 to 7 that a scan of the value meets, under any wire type
ReachedTags(bytes) ==
    {t \in 1..7 : MatchesUpToUnskippable(bytes, t, 0) # <<>>}

\* the bytes hold the field whose declared length overflows the position
HoldsOverflowingLength(bytes) ==
    \E i \in 1..Len(bytes) :
        /\ i + 9 <= Len(bytes)
        /\ SubSeq(bytes, i, i + 9) = <<255, 255, 255, 255, 255, 255, 255, 255, 255, 1>>

\* C22: AnyValueParser::value_type returns the type of the lowest tag from 1
\* to 7 that is present in the value (String, Bool, Int, Double, Array, KvList,
\* Bytes), and Unknown, without failing, for a value in which none is.
C22_LazyTypeIsFirstTagPresent ==
    out.op = "lazy_value" =>
        out.value_type = IF ReachedTags(buf) = {} THEN "Unknown"
                         ELSE BranchType(MinOf(ReachedTags(buf)))

\* What remains of C22 on the values that hold no field whose declared length
\* overflows: no probe fails and the type is that of the lowest tag present.
C22_HoldsWithoutOverflowingLength ==
    (out.op = "lazy_value" /\ ~HoldsOverflowingLength(buf)) =>
        /\ out.value_type # "panic"
        /\ out.value_type = IF ReachedTags(buf) = {} THEN "Unknown"
                            ELSE BranchType(MinOf(ReachedTags(buf)))

\* a probe that does not fail reports the lowest tag present, whatever the
\* value holds
C22_TypeRightUnlessPanic ==
    (out.op = "lazy_value" /\ out.value_type # "panic") =>
        out.value_type = IF ReachedTags(buf) = {} THEN "Unknown"
                         ELSE BranchType(MinOf(ReachedTags(buf)))

\* a value that is not empty and holds no tag from 1 to 7 is Unknown
C22_UnknownForNoBranch ==
    (out.op = "lazy_value" /\ buf = <<64, 1>>) => out.value_type = "Unknown"

-----------------------------------------------------------------------------
(* Pool level: the same instance parsed into and cleared in any order, the
   clear being that of the instance or of the first pooled node of a level *)

PoolLevels == {"logs", "resource_logs", "scope_logs", "log_record"}

\* whether the first pooled node of a level exists
HasFirst(level) ==
    CASE level = "logs" -> TRUE
      [] level = "resource_logs" -> Len(logs.resource_logs) > 0
      [] level = "scope_logs" ->
            /\ Len(logs.resource_logs) > 0
            /\ Len(logs.resource_logs[1].scope_logs) > 0
      [] level = "log_record" ->
            /\ Len(logs.resource_logs) > 0
            /\ Len(logs.resource_logs[1].scope_logs) > 0
            /\ Len(logs.resource_logs[1].scope_logs[1].log_records) > 0

\* node.clear() on the instance or on the first pooled node of a level
Clear(level) ==
    /\ phase \in {"new", "parsed"}
    /\ HasFirst(level)
    /\ logs' =
         CASE level = "logs" -> LogsData_clear(logs)
           [] level = "resource_logs" ->
                [logs EXCEPT !.resource_logs[1] = ResourceLogs_clear(@)]
           [] level = "scope_logs" ->
                [logs EXCEPT !.resource_logs[1].scope_logs[1] = ScopeLogs_clear(@)]
           [] level = "log_record" ->
                [logs EXCEPT !.resource_logs[1].scope_logs[1].log_records[1] =
                                 LogRecord_clear(@)]
    /\ out' = [op |-> "clear", level |-> level]
    /\ UNCHANGED <<buf, pos, target, phase, gen, tree, cache, scans, calls>>

\* the buffers parsed at this level: three small groups, one group of several
\* scope groups with an attribute that does not count, no group at all, nested
\* values, and a length that overflows
PoolInputs ==
    { encode_logs_data(MkLogsData(MaxResources + 1, 1, 1, 1, FALSE, "plain")),
      encode_logs_data(MkLogsData(1, MaxScopes, 1, MaxAttributes,
                                  TRUE, "empty_key")),
      <<>>,
      NestedValuesBuffer,
      OverflowingBuffer }

PoolNext ==
    \/ \E b \in PoolInputs : Parse(b)
    \/ \E level \in PoolLevels : Clear(level)

SpecPool == Init /\ [][PoolNext]_vars

\* the attributes pool of an Option<Resource> or Option<InstrumentationScope>
HolderWithin(holder) ==
    \A i \in 1..Len(holder) : holder[i].attributes_used <= Len(holder[i].attributes)

RecordWithin(record) == record.attributes_used <= Len(record.attributes)

ScopeLogsWithin(sl) ==
    /\ sl.log_records_used <= Len(sl.log_records)
    /\ HolderWithin(sl.scope)
    /\ \A k \in 1..Len(sl.log_records) : RecordWithin(sl.log_records[k])

ResourceLogsWithin(rl) ==
    /\ rl.scope_logs_used <= Len(rl.scope_logs)
    /\ HolderWithin(rl.resource)
    /\ \A j \in 1..Len(rl.scope_logs) : ScopeLogsWithin(rl.scope_logs[j])

\* every counter of the tree, used slots and unused ones alike, is at most the
\* length of its pool
CountersWithinPools(l) ==
    /\ l.used_count <= Len(l.resource_logs)
    /\ \A i \in 1..Len(l.resource_logs) : ResourceLogsWithin(l.resource_logs[i])

RecordKept(old, new) == Len(new.attributes) >= Len(old.attributes)

ScopeLogsKept(old, new) ==
    /\ Len(new.log_records) >= Len(old.log_records)
    /\ \A k \in 1..Len(old.log_records) :
           RecordKept(old.log_records[k], new.log_records[k])

ResourceLogsKept(old, new) ==
    /\ Len(new.scope_logs) >= Len(old.scope_logs)
    /\ \A j \in 1..Len(old.scope_logs) :
           ScopeLogsKept(old.scope_logs[j], new.scope_logs[j])

\* no pool of the tree is shorter in new than it was in old
PoolsKept(old, new) ==
    /\ Len(new.resource_logs) >= Len(old.resource_logs)
    /\ \A i \in 1..Len(old.resource_logs) :
           ResourceLogsKept(old.resource_logs[i], new.resource_logs[i])

\* the node a clear acted on, before and after
ClearedNode(l, level) ==
    CASE level = "logs" -> [used |-> l.used_count, pool |-> l.resource_logs]
      [] level = "resource_logs" ->
            [used |-> l.resource_logs[1].scope_logs_used,
             pool |-> l.resource_logs[1].scope_logs]
      [] level = "scope_logs" ->
            [used |-> l.resource_logs[1].scope_logs[1].log_records_used,
             pool |-> l.resource_logs[1].scope_logs[1].log_records]
      [] level = "log_record" ->
            [used |-> l.resource_logs[1].scope_logs[1].log_records[1].attributes_used,
             pool |-> l.resource_logs[1].scope_logs[1].log_records[1].attributes]

\* a step keeps every pool at least as long, and a clear zeroes the counter of
\* its node while leaving the pool as it was
PoolStepKeepsPools ==
    /\ PoolsKept(logs, logs')
    /\ out'.op = "clear" =>
           /\ ClearedNode(logs', out'.level).used = 0
           /\ ClearedNode(logs', out'.level).pool = ClearedNode(logs, out'.level).pool
    /\ (out'.op = "parse" /\ phase' = "parsed" /\ ~out'.ok) => logs'.used_count = 0

\* attribute messages a Resource (tag 1) and an InstrumentationScope (tag 3)
\* are parsed from again: none, one, three of which the second has no key
HolderReparseInputs(tag) ==
    LET attribute(key) == EncodeLengthDelimited(tag, EncodeLengthDelimited(1, key))
    IN  { <<>>,
          attribute(<<97>>),
          attribute(<<97>>) \o attribute(<<>>) \o attribute(<<98>>) }

\* a node that holds its attribute pool itself, cleared and parsed once more:
\* r is the result of the parse, cleared the result of the clear
HolderKeepsPool(holder, cleared, r) ==
    /\ cleared.attributes_used = 0
    /\ cleared.attributes = holder.attributes
    /\ ~r.panic
    /\ r.node.attributes_used <= Len(r.node.attributes)
    /\ Len(r.node.attributes) >= Len(holder.attributes)

\* the Resource and the InstrumentationScope of every pooled node, were they
\* parsed into again as Resource::parse and InstrumentationScope::parse allow
HoldersKeepPools(l) ==
    \A i \in 1..Len(l.resource_logs) :
        LET rl == l.resource_logs[i]
        IN  /\ \A n \in 1..Len(rl.resource) : \A b \in HolderReparseInputs(1) :
                 HolderKeepsPool(rl.resource[n], Resource_clear(rl.resource[n]),
                                 Resource_parse(rl.resource[n], Whole(b), gen + 1))
            /\ \A j \in 1..Len(rl.scope_logs) :
                 \A n \in 1..Len(rl.scope_logs[j].scope) :
                   \A b \in HolderReparseInputs(3) :
                     HolderKeepsPool(rl.scope_logs[j].scope[n],
                         InstrumentationScope_clear(rl.scope_logs[j].scope[n]),
                         InstrumentationScope_parse(rl.scope_logs[j].scope[n],
                                                    Whole(b), gen + 1))

\* C23: after any sequence of parse and clear calls every used counter
\* (used_count, scope_logs_used, log_records_used, attributes_used) is at most
\* the length of its pool; a clear sets the counter of its node to 0 and keeps
\* the pool; no pool ever gets shorter, that of a Resource or an
\* InstrumentationScope parsed into again included
C23_PoolBookkeeping ==
    /\ [](CountersWithinPools(logs) /\ HoldersKeepPools(logs))
    /\ [][PoolStepKeepsPools]_vars

\* a parse that counted one group into a pool that keeps three, each of them
\* with its own pools
C23_Witness_FewerUsedThanPooled ==
    /\ out.op = "parse"
    /\ phase = "parsed"
    /\ logs.used_count = 1
    /\ Len(logs.resource_logs) > 2
    /\ Len(logs.resource_logs[3].scope_logs) > 0

\* the node a parse finds at index i of a pool: the pooled one, or the new one
\* it appends
SlotBefore(pool, i, fresh) == IF i <= Len(pool) THEN pool[i] ELSE fresh

LongerOf(a, b) == IF a >= b THEN a ELSE b

\* a pool before and after a parse that counted used children.  every_counts
\* says that the parse of a child of this pool always returns true; where it
\* does not, one slot past the counted ones may have been written
PoolReused(old, new, used, every_counts) ==
    /\ used <= Len(new)
    /\ Len(new) >= Len(old)
    /\ used < Len(old) => Len(new) = Len(old)
    /\ IF every_counts
       THEN /\ Len(new) = LongerOf(Len(old), used)
            /\ \A i \in (used + 1)..Len(old) : new[i] = old[i]
       ELSE /\ Len(new) <= LongerOf(Len(old), used + 1)
            /\ \A i \in (used + 2)..Len(old) : new[i] = old[i]

RecordReused(old, new) ==
    PoolReused(old.attributes, new.attributes, new.attributes_used, FALSE)

ScopeLogsReused(old, new) ==
    /\ PoolReused(old.log_records, new.log_records, new.log_records_used, TRUE)
    /\ \A k \in 1..new.log_records_used :
           RecordReused(SlotBefore(old.log_records, k, LogRecord_new),
                        new.log_records[k])

ResourceLogsReused(old, new) ==
    /\ PoolReused(old.scope_logs, new.scope_logs, new.scope_logs_used, TRUE)
    /\ \A j \in 1..new.scope_logs_used :
           ScopeLogsReused(SlotBefore(old.scope_logs, j, ScopeLogs_new),
                           new.scope_logs[j])

LogsDataReused(old, new) ==
    /\ PoolReused(old.resource_logs, new.resource_logs, new.used_count, TRUE)
    /\ \A i \in 1..new.used_count :
           ResourceLogsReused(SlotBefore(old.resource_logs, i, ResourceLogs_new),
                              new.resource_logs[i])

\* C24: a parse writes the child of logical index i into the pooled node at
\* index i when there is one and appends a node only otherwise: a pool that
\* held at least as many nodes as the parse counted keeps its length and its
\* further nodes, and no pool grows by more than one node past the children
\* counted
C24_SlotsReusedBeforeAppend ==
    [][(out'.op = "parse" /\ phase' = "parsed") => LogsDataReused(logs, logs')]_vars

\* a second parse that left a pooled group uncounted and, in a counted record,
\* an attribute slot written but not counted
C24_Witness_ReusedAndUncounted ==
    /\ out.op = "parse"
    /\ phase = "parsed"
    /\ gen > 1
    /\ logs.used_count > 0
    /\ logs.used_count < Len(logs.resource_logs)
    /\ \E j \in 1..logs.resource_logs[1].scope_logs_used :
         \E k \in 1..logs.resource_logs[1].scope_logs[j].log_records_used :
           LET record == logs.resource_logs[1].scope_logs[j].log_records[k]
           IN  record.attributes_used < Len(record.attributes)

\* the tag an accessor of a singular field looks up
LookupTag(name) ==
    IF name \in DOMAIN SingularFields THEN SingularFields[name][1]
    ELSE IF name = "is_trace_id_valid" THEN 9
    ELSE IF name = "is_span_id_valid" THEN 10
    ELSE 8

\* C25: for every singular field of a record the view with a cache returns
\* exactly what a find_field lookup of the field's tag returns (the first
\* occurrence), also when the tag occurs more than once.
C25_CacheReturnsFirstOccurrence ==
    out.op = "lookup" => out.cached = out.found

\* What remains of C25 on the records where the tag looked up occurs at most
\* once and filling the cache does not panic.
C25_HoldsWithoutRepeatedTag ==
    (out.op = "lookup" /\ ~out.cached.panic
     /\ Len(MatchesUpToUnskippable(buf, LookupTag(out.name), 0)) <= 1) =>
        out.cached = out.found

\* where a trace_id occurs twice the lookup returns the first and the cache the
\* last
C25_CacheKeepsLastOccurrence ==
    (out.op = "lookup" /\ out.name = "trace_id"
     /\ ~out.cached.panic /\ ~out.found.panic
     /\ Len(MatchesUpToUnskippable(buf, 9, 0)) = 2) =>
        /\ OptionBytes(out.found.v)
               = SpanAt(buf, << MatchesUpToUnskippable(buf, 9, 0)[1] >>)
        /\ OptionBytes(out.cached.v) = SpanAt(buf, LastOf(buf, 9))

\* the cache panics on every record that holds a length it cannot add to the
\* position, the lookup only when that field lies before the one it looks for
C25_LookupPanicsOnlyWithCache ==
    (out.op = "lookup" /\ out.found.panic) => out.cached.panic

-----------------------------------------------------------------------------
(* Record attribute level: the attributes of one record, iterated through the cache
   of the view, through the iterator that scans the bytes, and read from the
   eager record *)

\* bound on the number of fields of a record at this level
MaxAttributeFields == 3

AttributeFieldEncodings ==
    { <<50, 3, 10, 1, 107>>,                     \* 6 attribute, key "k"
      <<50, 5, 10, 1, 97, 18, 0>>,               \* 6 attribute, key "a", a value
      <<50, 0>>,                                  \* 6 attribute without a key
      <<48, 1>>,                                  \* 6 as a varint
      <<53, 1, 0, 0, 0>>,                         \* 6 as a fixed32
      <<16, 9>>,                                  \* 2 severity_number
      <<50, 5, 10>>,                              \* 6 attribute cut short
      <<50, 255, 255, 255, 255, 255, 255, 255, 255, 255, 1>> }
                                                 \* 6 as a span of 2^64 - 1 bytes

AttributeInputs ==
    {Concat(fs) : fs \in SeqsUpTo(AttributeFieldEncodings, MaxAttributeFields)}

AttributeInit ==
    /\ buf \in AttributeInputs
    /\ pos = 0
    /\ target = 0
    /\ out = NoOut
    /\ phase = "input"
    /\ NoTree
    /\ NoView

\* AttributeIterator { parser, pos: 0 } in a for loop
AttributeIterator_items(data) == iterator_items(data, 0, 6, <<>>)

\* for attr in record.attributes(), the bytes of each item: on a new view with
\* a cache (CachedAttributeIterator), with the scanning AttributeIterator, and
\* on a new eager LogRecord after parse
IterateAttributes ==
    /\ phase = "input"
    /\ \E c \in {lazy_attributes(Whole(buf))},
          u \in {AttributeIterator_items(Whole(buf))},
          r \in {LogRecord_parse(LogRecord_new, Whole(buf), 1)} :
         out' = [op |-> "attributes",
                 cached |-> c,
                 uncached |-> u,
                 eager |-> [panic |-> r.panic,
                            items |-> IF r.panic THEN <<>>
                                      ELSE [i \in 1..r.node.attributes_used |->
                                               r.node.attributes[i].src]]]
    /\ phase' = "done"
    /\ UNCHANGED <<buf, pos, target, logs, gen, tree, cache, scans, calls>>

\* record.attributes().count() on the view with a cache
CountAttributes ==
    /\ phase = "input"
    /\ \E c \in {lazy_attributes(Whole(buf))} :
         out' = [op |-> "count", panic |-> c.panic, n |-> Len(c.items)]
    /\ phase' = "done"
    /\ UNCHANGED <<buf, pos, target, logs, gen, tree, cache, scans, calls>>

AttributeNext == IterateAttributes \/ CountAttributes

SpecAttributes == AttributeInit /\ [][AttributeNext]_vars

\* the fields of tag 6 the scan of the record meets, in wire order
Tag6Fields(bytes) == MatchesUpToUnskippable(bytes, 6, 0)

IsMessageField(f) == f[1] = 2

\* the bytes of every field of tag 6 and wire type 2 that lies inside the
\* record, in wire order
AttributeSpans(bytes) ==
    LET inside(f) == IsMessageField(f) /\ SpanAt(bytes, <<f>>) # None
        fields == SelectSeq(Tag6Fields(bytes), inside)
    IN  [i \in 1..Len(fields) |-> SpanAt(bytes, << fields[i] >>)[1]]

BytesOfItems(items) == [i \in 1..Len(items) |-> Bytes(items[i])]

\* C26: the attribute iterator of the view with a cache yields every field of
\* tag 6 and wire type 2 in wire order, the same items as the scanning
\* AttributeIterator and as the eager record; a field of tag 6 with another
\* wire type is skipped and does not end the iteration.
C26_CachedAttributesInWireOrder ==
    out.op = "attributes" =>
        /\ ~out.cached.panic
        /\ BytesOfItems(out.cached.items) = AttributeSpans(buf)
        /\ out.cached.items = out.uncached.items
        /\ out.cached.items = out.eager.items

\* What remains of C26 for the view with a cache: on the records whose fields
\* of tag 6 all have wire type 2, and whose cache fills without a panic, it
\* yields every attribute in wire order, as the scanning iterator does.
C26_HoldsWhenEveryTag6IsAMessage ==
    (out.op = "attributes" /\ ~out.cached.panic
     /\ \A i \in 1..Len(Tag6Fields(buf)) : IsMessageField(Tag6Fields(buf)[i])) =>
        /\ BytesOfItems(out.cached.items) = AttributeSpans(buf)
        /\ out.cached.items = out.uncached.items

\* the scanning iterator skips a field of tag 6 with another wire type
C26_ScanningIteratorSkips ==
    (out.op = "attributes" /\ ~out.uncached.panic) =>
        BytesOfItems(out.uncached.items) = AttributeSpans(buf)

\* the iterator of the cache ends at the first field of tag 6 that has another
\* wire type: it yields the attributes before it and none after
C26_CachedIteratorEndsAtOtherWireType ==
    (out.op = "attributes" /\ ~out.cached.panic) =>
        LET fields == Tag6Fields(buf)
            others == {i \in 1..Len(fields) : ~IsMessageField(fields[i])}
            before == IF others = {} THEN fields
                      ELSE SubSeq(fields, 1, MinOf(others) - 1)
            inside(f) == SpanAt(buf, <<f>>) # None
        IN  Len(out.cached.items) = Len(SelectSeq(before, inside))

\* the eager record keeps, of the attributes the scanning iterator yields,
\* those whose KeyValue::parse returns true (a key that is not empty)
C26_EagerKeepsKeyedAttributes ==
    (out.op = "attributes" /\ ~out.eager.panic /\ ~out.uncached.panic) =>
        LET keyed(s) == KeyValue_parse(s, 1).ok
        IN  out.eager.items = SelectSeq(out.uncached.items, keyed)

\* a varint of tag 6, then an attribute: the cache yields nothing, the scanning
\* iterator and the eager record the attribute
C26_CachedMissesAttributeAfterVarint ==
    (out.op = "attributes" /\ buf = <<48, 1, 50, 3, 10, 1, 107>>) =>
        /\ ~out.cached.panic /\ ~out.uncached.panic /\ ~out.eager.panic
        /\ out.cached.items = <<>>
        /\ BytesOfItems(out.uncached.items) = << <<10, 1, 107>> >>
        /\ out.eager.items = out.uncached.items

-----------------------------------------------------------------------------
(* Eager and lazy value typing *)

\* the two decoders type the value alike: parse returns false exactly when
\* value_type is Unknown, and the variant stored is the type reported
TypesAgree(o) ==
    /\ ~o.eager.panic
    /\ o.lazy # "panic"
    /\ o.eager.ok <=> o.lazy # "Unknown"
    /\ o.eager.ok => o.eager.type = o.lazy

\* C27: for the same value bytes the type stored by AnyValue::parse is the type
\* AnyValueParser::value_type reports, and parse returns false exactly when
\* value_type is Unknown; also when a lower tag occurs with a wire type that is
\* not its own, is cut short, or holds text that is no UTF-8.
C27_EagerAndLazyTypesAgree ==
    out.op = "value_types" => TypesAgree(out)

\* What remains of C27 on the Value messages: whole fields of tags 1 to 7, each
\* under the wire type of its branch, the string a UTF-8 text.
C27_HoldsOnValueMessages ==
    (out.op = "value_types" /\ ValueMessage(buf)) => TypesAgree(out)

\* tag 1 as a varint, then a bool: parse falls through to the bool, value_type
\* answers by the presence of tag 1
C27_MistypedLowerTag ==
    (out.op = "value_types" /\ buf = <<8, 1, 16, 1>>) =>
        /\ out.eager.ok /\ out.eager.type = "Bool"
        /\ out.lazy = "String"

\* tag 1 holding a byte that is no UTF-8, alone: parse returns false, value_type
\* is String
C27_InvalidTextAlone ==
    (out.op = "value_types" /\ buf = <<10, 1, 255>>) =>
        /\ ~out.eager.panic /\ ~out.eager.ok
        /\ out.lazy = "String"

\* the lazy type is that of the lowest tag present under any wire type; the
\* eager one, when parse returns true, is that of a tag present and never of a
\* lower tag than the lazy one's
C27_EagerTypeNeverBelowLazy ==
    (out.op = "value_types" /\ ~out.eager.panic /\ out.lazy # "panic"
     /\ out.eager.ok) =>
        \E e \in ReachedTags(buf) :
            /\ BranchType(e) = out.eager.type
            /\ BranchType(MinOf(ReachedTags(buf))) = out.lazy
            /\ e >= MinOf(ReachedTags(buf))

-----------------------------------------------------------------------------
(* Structure level: one buffer, well-formed or not, counted through the eager
   tree after parse and through the iterators of the lazy views *)

\* bound on the number of top-level fields of a buffer at this level
MaxCountFields == 2

\* the field whose declared length overflows the position, as an attribute
OverflowingAttribute == <<50, 255, 255, 255, 255, 255, 255, 255, 255, 255, 1>>

\* a record: empty, with a severity, with the overflowing attribute
CountRecordPayloads == { <<>>, <<16, 9>>, OverflowingAttribute }

\* fields of a scope group: a record; tag 2 as a varint; a record cut short;
\* a field of wire type 3; a record whose declared length overflows
CountScopeFields ==
    { EncodeLengthDelimited(2, r) : r \in CountRecordPayloads }
    \cup { <<16, 1>>, <<18, 5, 0>>, <<19>>,
           <<18, 255, 255, 255, 255, 255, 255, 255, 255, 255, 1>> }

\* a scope group: at most one field, or a varint of tag 2 between two records
CountScopePayloads ==
    { Concat(fs) : fs \in SeqsUpTo(CountScopeFields, 1) }
    \cup { <<18, 0, 16, 1, 18, 2, 16, 9>> }

\* fields of a resource group: a scope group; a resource; tag 2 as a varint; a
\* scope group cut short; a field of wire type 3
CountResourceFields ==
    { EncodeLengthDelimited(2, s) : s \in CountScopePayloads }
    \cup { <<10, 0>>, <<16, 1>>, <<18, 5, 0>>, <<19>> }

\* a resource group: at most one field, or a scope group cut short between two
\* whole ones
CountResourcePayloads ==
    { Concat(fs) : fs \in SeqsUpTo(CountResourceFields, 1) }
    \cup { <<18, 0, 16, 1, 18, 2, 18, 0>> }

\* top-level fields: a resource group; tag 1 as a varint; a fixed64 cut short;
\* a resource group cut short; a field of wire type 3; a resource group whose
\* declared length overflows
CountTopFields ==
    { EncodeLengthDelimited(1, r) : r \in CountResourcePayloads }
    \cup { <<8, 1>>, <<9, 0>>, <<10, 5, 0>>, <<11>>, OverflowingBuffer }

\* the fields that follow a first one: an empty resource group, a resource
\* group with a scope group and a record, tag 1 as a varint, a resource group
\* cut short
CountFollowingFields ==
    { <<10, 0>>, <<10, 6, 18, 4, 18, 2, 16, 9>>, <<8, 1>>, <<10, 5, 0>> }

\* no field, or one top-level field of any encoding followed by fewer than
\* MaxCountFields of the following ones
CountInputs ==
    { first \o Concat(fs) :
        first \in CountTopFields \cup {<<>>},
        fs \in SeqsUpTo(CountFollowingFields, MaxCountFields - 1) }

CountInit ==
    /\ buf \in CountInputs
    /\ pos = 0
    /\ target = 0
    /\ out = NoOut
    /\ phase = "input"
    /\ NoTree
    /\ NoView

\* the groups and records the eager tree exposes: used_count, the
\* scope_logs_used of the used groups, the log_records_used of their used
\* scope groups
LogsData_structure(self) ==
    LET rls == LogsData_resources(self)
        scopes(i) == ResourceLogs_scopes(rls[i])
    IN  << Len(rls),
           SumOf([i \in 1..Len(rls) |-> Len(scopes(i))]),
           SumOf([i \in 1..Len(rls) |->
                    SumOf([j \in 1..Len(scopes(i)) |->
                             Len(ScopeLogs_log_records(scopes(i)[j]))])]) >>

\* for scope in resource.scope_logs() { for record in scope.log_records() }:
\* [panic, scopes, records] summed over the scope groups from index j
RECURSIVE lazy_structure_scopes(_, _)
lazy_structure_scopes(scopes, j) ==
    IF j > Len(scopes) THEN [panic |-> FALSE, scopes |-> 0, records |-> 0]
    ELSE The({ [panic   |-> rs.panic \/ rest.panic,
                scopes  |-> 1 + rest.scopes,
                records |-> Len(rs.items) + rest.records]
               : rs   \in {log_records(scopes[j])},
                 rest \in {lazy_structure_scopes(scopes, j + 1)} })

RECURSIVE lazy_structure_resources(_, _)
lazy_structure_resources(resources, i) ==
    IF i > Len(resources) THEN [panic |-> FALSE, scopes |-> 0, records |-> 0]
    ELSE The({
      The({ [panic   |-> ss.panic \/ here.panic \/ rest.panic,
             scopes  |-> here.scopes + rest.scopes,
             records |-> here.records + rest.records]
            : here \in {lazy_structure_scopes(ss.items, 1)} })
      : ss   \in {scope_logs(resources[i])},
        rest \in {lazy_structure_resources(resources, i + 1)} })

\* the walk LogsDataParser::resource_logs() -> scope_logs() -> log_records(),
\* counting what each iterator yields: [panic, counts]
lazy_structure(data) ==
    The({ IF rls.panic THEN [panic |-> TRUE, counts |-> <<0, 0, 0>>]
          ELSE The({ [panic |-> c.panic,
                      counts |-> IF c.panic THEN <<0, 0, 0>>
                                 ELSE <<Len(rls.items), c.scopes, c.records>>]
                     : c \in {lazy_structure_resources(rls.items, 1)} })
          : rls \in {resource_logs(data)} })

\* LogsData::new(), parse(buf), then the counts of the tree
CountEager ==
    /\ phase = "input"
    /\ \E r \in {LogsData_parse(LogsData_new, Whole(buf), 1)} :
         out' = [op |-> "count_eager", panic |-> r.panic, ok |-> r.ok,
                 counts |-> IF r.panic THEN <<0, 0, 0>>
                            ELSE LogsData_structure(r.node)]
    /\ phase' = "done"
    /\ UNCHANGED <<buf, pos, target, logs, gen, tree, cache, scans, calls>>

\* LogsDataParser::new(buf), then the counts of the walk
CountLazy ==
    /\ phase = "input"
    /\ \E c \in {lazy_structure(Whole(buf))} :
         out' = [op |-> "count_lazy", panic |-> c.panic, counts |-> c.counts]
    /\ phase' = "done"
    /\ UNCHANGED <<buf, pos, target, logs, gen, tree, cache, scans, calls>>

\* the eager nodes below LogsData
NodeKinds == {"ResourceLogs", "ScopeLogs", "LogRecord", "Resource",
              "InstrumentationScope"}

\* Kind::new(), parse(buf) on the same bytes taken as a message of that kind:
\* the value returned
ParseNode(kind) ==
    /\ phase = "input"
    /\ \E r \in { CASE kind = "ResourceLogs" ->
                         ResourceLogs_parse(ResourceLogs_new, Whole(buf), 1)
                    [] kind = "ScopeLogs" ->
                         ScopeLogs_parse(ScopeLogs_new, Whole(buf), 1)
                    [] kind = "LogRecord" ->
                         LogRecord_parse(LogRecord_new, Whole(buf), 1)
                    [] kind = "Resource" ->
                         Resource_parse(Resource_new, Whole(buf), 1)
                    [] kind = "InstrumentationScope" ->
                         InstrumentationScope_parse(InstrumentationScope_new,
                                                    Whole(buf), 1) } :
         out' = [op |-> "parse_node", kind |-> kind, panic |-> r.panic,
                 ok |-> r.ok]
    /\ phase' = "done"
    /\ UNCHANGED <<buf, pos, target, logs, gen, tree, cache, scans, calls>>

CountNext == CountEager \/ CountLazy \/ \E kind \in NodeKinds : ParseNode(kind)

SpecCounts == CountInit /\ [][CountNext]_vars

\* the counts of a buffer as the wire format gives them, up to the first field
\* of each message that cannot be skipped: the length-delimited fields of tag 1
\* of the buffer, of tag 2 of each of them, and of tag 2 of each of those
ChildSpans(bytes, tag) ==
    LET m == MatchesUpToUnskippable(bytes, tag, 0)
        inside(f) == f[1] = 2 /\ SpanAt(bytes, <<f>>) # None
        fields == SelectSeq(m, inside)
    IN  [i \in 1..Len(fields) |-> SpanAt(bytes, << fields[i] >>)[1]]

StructureOf(bytes) ==
    LET rls == ChildSpans(bytes, 1)
        scopes(i) == ChildSpans(rls[i], 2)
    IN  << Len(rls),
           SumOf([i \in 1..Len(rls) |-> Len(scopes(i))]),
           SumOf([i \in 1..Len(rls) |->
                    SumOf([j \in 1..Len(scopes(i)) |->
                             Len(ChildSpans(scopes(i)[j], 2))])]) >>

\* C28: for every byte buffer, malformed and truncated ones included, the
\* numbers of resource groups, scope groups and log records exposed by the
\* eager tree after LogsData::parse are those yielded by the walk
\* resource_logs() -> scope_logs() -> log_records() of the lazy view: both
\* return, with the counts the bytes hold.
C28_StructureCountsAgree ==
    out.op \in {"count_eager", "count_lazy"} =>
        ~out.panic /\ out.counts = StructureOf(buf)

\* What remains of C28 when a run that panicked is left aside: the two counts
\* are those of the bytes.
C28_CountsAgreeUnlessPanic ==
    (out.op \in {"count_eager", "count_lazy"} /\ ~out.panic) =>
        out.counts = StructureOf(buf)

\* the lazy walk does not read inside a record: it returns the counts of the
\* bytes where the eager parse panics on an attribute, and panics only on a
\* length that overflows in a field of tag 1 or 2
C28_LazyWalkPanicsOnlyOnGroupField ==
    (out.op = "count_lazy" /\ out.panic) =>
        \E i \in 1..Len(buf) : \E t \in {10, 18} :
            /\ i + 10 <= Len(buf)
            /\ SubSeq(buf, i, i + 10)
                   = <<t, 255, 255, 255, 255, 255, 255, 255, 255, 255, 1>>

\* the eager runs that panic are those of a buffer holding the overflowing
\* length
C28_EagerPanicsOnlyOnOverflowingLength ==
    (out.op = "count_eager" /\ out.panic) => HoldsOverflowingLength(buf)

-----------------------------------------------------------------------------
(* Loop level: the scan loops taken one iteration at a time, and the descent
   into the child message a loop hands to a nested parse or view *)

\* bound on the number of fields of a message at this level
MaxLoopFields == 2

\* the loop of ProtobufParser::parse_all_fields (find_field and get_cache have
\* its shape), the loop of LogsData::parse, and the loop of the next() of the
\* lazy iterators
LoopKinds == {"parse_all_fields", "LogsData_parse", "iterator_next"}

\* Encodings of one field: a varint; a span of one byte; an empty span; a
\* fixed32; a fixed64; wire type 3; a varint cut short; a span declaring 5
\* bytes; a tag cut short; a span declaring 2^64-1 bytes; a fixed64 and a
\* fixed32 cut short; messages of tag 1 and of tag 2 nested three and two deep
LoopFieldEncodings ==
    { <<8, 1>>, <<10, 1, 0>>, <<18, 0>>, <<13, 1, 2, 3, 4>>,
      <<17, 1, 2, 3, 4, 5, 6, 7, 8>>, <<11>>, <<24, 128>>, <<10, 5, 0>>, <<128>>,
      <<10, 255, 255, 255, 255, 255, 255, 255, 255, 255, 1>>,
      <<9, 0>>, <<21, 0>>,
      <<10, 6, 18, 4, 18, 2, 16, 5>>, <<18, 4, 18, 2, 16, 5>> }

LoopInputs == {Concat(fs) : fs \in SeqsUpTo(LoopFieldEncodings, MaxLoopFields)}

\* a longest message of the inputs
LongestLoopInput ==
    CHOOSE b \in LoopInputs : \A c \in LoopInputs : Len(c) <= Len(b)

\* a loop that never moves
loop_step_stays(kind, data, p, tag) ==
    [exit |-> p >= DLen(data), panic |-> FALSE, pos |-> p, child |-> None]

\* one test of the while condition and, when it holds, one run of the loop
\* body from position p: [exit, panic, pos, child], exit when the loop was left
\* (condition false, break, return None, or a panic), pos the position the next
\* iteration starts from, child the bytes of the field of the tag handed to a
\* nested parse or view
loop_step(kind, data, p, tag) ==
    LET stop == [exit |-> TRUE, panic |-> FALSE, pos |-> p, child |-> None]
        boom == [exit |-> TRUE, panic |-> TRUE, pos |-> p, child |-> None]
        go(q) == [exit |-> FALSE, panic |-> FALSE, pos |-> q, child |-> None]
    IN  IF p >= DLen(data) THEN stop
        ELSE IF kind = "parse_all_fields"
        THEN The({
          IF ~t.some THEN stop
          ELSE LET wt == WireOf(t.val)
               IN  CASE wt = 0 -> The({ IF v.some THEN go(v.pos) ELSE stop
                                        : v \in {parse_varint(data, t.pos)} })
                     [] wt = 1 -> IF t.pos + 8 <= DLen(data) THEN go(t.pos + 8)
                                  ELSE stop
                     [] wt = 2 ->
                          The({ IF s.kind = "panic" THEN boom
                                ELSE IF s.kind = "none" THEN stop
                                ELSE [go(s.pos) EXCEPT !.child =
                                        IF TagOf(t.val) = tag THEN Some(s.bytes)
                                        ELSE None]
                                : s \in {parse_length_delimited(data, t.pos)} })
                     [] wt = 5 -> IF t.pos + 4 <= DLen(data) THEN go(t.pos + 4)
                                  ELSE stop
                     [] OTHER -> stop
          : t \in {parse_varint(data, p)} })
        ELSE IF kind = "LogsData_parse"
        THEN The({
          IF ~t.some THEN stop
          ELSE LET wt == WireOf(t.val)
               IN  IF TagOf(t.val) = 1 /\ wt = 2
                   THEN The({ IF s.kind = "panic" THEN boom
                              ELSE IF s.kind = "none" THEN stop
                              ELSE [go(s.pos) EXCEPT !.child = Some(s.bytes)]
                              : s \in {parse_length_delimited(data, t.pos)} })
                   ELSE CASE wt = 0 ->
                               The({ go(IF v.some THEN v.pos ELSE DLen(data))
                                     : v \in {parse_varint(data, t.pos)} })
                          [] wt = 1 -> go(t.pos + 8)
                          [] wt = 2 ->
                               The({ IF s.kind = "panic" THEN boom
                                     ELSE go(IF s.kind = "some" THEN s.pos
                                             ELSE DLen(data))
                                     : s \in {parse_length_delimited(data, t.pos)} })
                          [] wt = 5 -> go(t.pos + 4)
                          [] OTHER -> stop
          : t \in {parse_varint(data, p)} })
        ELSE The({
          IF ~t.some THEN stop
          ELSE LET wt == WireOf(t.val)
               IN  IF TagOf(t.val) = tag /\ wt = 2
                   THEN The({ IF s.kind = "panic" THEN boom
                              ELSE IF s.kind = "none" THEN stop
                              ELSE [go(s.pos) EXCEPT !.child = Some(s.bytes)]
                              : s \in {lazy_parse_length_delimited(data, t.pos)} })
                   ELSE CASE wt = 0 ->
                               The({ IF v.some THEN go(v.pos) ELSE stop
                                     : v \in {lazy_parse_varint(data, t.pos)} })
                          [] wt = 1 -> go(t.pos + 8)
                          [] wt = 2 ->
                               The({ IF s.kind = "panic" THEN boom
                                     ELSE IF s.kind = "none" THEN stop
                                     ELSE go(s.pos)
                                     : s \in {lazy_parse_length_delimited(data, t.pos)} })
                          [] wt = 5 -> go(t.pos + 4)
                          [] OTHER -> stop
          : t \in {lazy_parse_varint(data, p)} })

\* a loop of one kind is about to start on a message; scans counts its
\* iterations, out holds the kind, the depth of the message and the child the
\* last iteration located
LoopInit ==
    /\ buf \in LoopInputs
    /\ pos = 0
    /\ \E kind \in LoopKinds :
         /\ out = [op |-> "loop", kind |-> kind, depth |-> 0, child |-> None,
                   panic |-> FALSE]
         /\ target = IF kind = "LogsData_parse" THEN 1 ELSE 2
    /\ phase = "looping"
    /\ NoTree
    /\ cache = None
    /\ scans = 0
    /\ calls = 0

\* the while condition and one iteration
LoopStep ==
    /\ phase = "looping"
    /\ \E r \in {loop_step(out.kind, Whole(buf), pos, target)} :
         /\ phase' = IF r.exit THEN "exited" ELSE "looping"
         /\ pos' = r.pos
         /\ scans' = IF r.exit THEN scans ELSE scans + 1
         /\ out' = [out EXCEPT !.child = IF r.child = None THEN None
                                         ELSE Some(Bytes(r.child[1])),
                               !.panic = r.panic]
    /\ UNCHANGED <<buf, target, logs, gen, tree, cache, calls>>

\* the nested parse or view of the child just located starts its own loop: the
\* loops of the eager nodes under LogsData are parse_all_fields(2), the lazy
\* views iterate with next()
Descend ==
    /\ phase = "looping"
    /\ out.child # None
    /\ buf' = out.child[1]
    /\ pos' = 0
    /\ scans' = 0
    /\ target' = 2
    /\ out' = [out EXCEPT !.kind = IF @ = "LogsData_parse" THEN "parse_all_fields"
                                   ELSE @,
                          !.depth = @ + 1,
                          !.child = None]
    /\ UNCHANGED <<phase, logs, gen, tree, cache, calls>>

LoopNext == LoopStep \/ Descend

SpecLoop == LoopInit /\ [][LoopNext]_vars

\* every loop gets to run: the code calls nothing between two iterations that
\* could wait
SpecLoopLive == SpecLoop /\ WF_vars(LoopStep)

\* an iteration that does not leave the loop ends at a greater position; a
\* child message is strictly shorter than the message it was found in
LoopProgress ==
    /\ (phase = "looping" /\ phase' = "looping" /\ buf' = buf) => pos' > pos
    /\ buf' # buf => Len(buf') < Len(buf)

\* C29: decoding always terminates.  Every non-exiting iteration of a scan
\* loop strictly increases the position, so a loop runs at most len(buffer)
\* iterations; a nested message is strictly shorter than its parent, so the
\* recursion ends; every loop is eventually left.
C29_DecodingTerminates ==
    /\ [][LoopProgress]_vars
    /\ [](scans <= Len(buf) /\ out.depth + Len(buf) <= Len(LongestLoopInput))
    /\ <>(phase = "exited")

\* a loop left by its while condition after as many iterations as the message
\* has fields, two levels below the buffer
C29_Witness_NestedLoopRanOut ==
    /\ phase = "exited"
    /\ out.depth = 2
    /\ scans > 0
    /\ pos >= Len(buf)
    /\ ~out.panic

-----------------------------------------------------------------------------
(* The value parse returns *)

\* C30: LogsData::parse returns true exactly when resources() exposes at least
\* one resource group afterwards, false otherwise (the empty buffer, a buffer
\* without a length-delimited field of tag 1); ResourceLogs::parse,
\* ScopeLogs::parse, LogRecord::parse, Resource::parse and
\* InstrumentationScope::parse return true for every input.
C30_ParseSuccessValue ==
    /\ out.op = "count_eager" =>
           /\ ~out.panic
           /\ out.ok <=> out.counts[1] > 0
           /\ out.ok <=> StructureOf(buf)[1] > 0
    /\ out.op = "parse_node" => ~out.panic /\ out.ok

\* What remains of C30 when a parse that panicked is left aside: the value
\* returned is as claimed whenever one is returned.
C30_HoldsWheneverParseReturns ==
    /\ (out.op = "count_eager" /\ ~out.panic) =>
           /\ out.ok <=> out.counts[1] > 0
           /\ out.ok <=> StructureOf(buf)[1] > 0
    /\ (out.op = "parse_node" /\ ~out.panic) => out.ok

\* a parse panics only on bytes that hold the overflowing length
C30_PanicOnlyOnOverflowingLength ==
    (out.op \in {"count_eager", "parse_node"} /\ out.panic) =>
        HoldsOverflowingLength(buf)

\* the root parse of a buffer whose only field of tag 1 is a varint returns
\* false; that of a buffer holding an empty resource group returns true
C30_RootFalseWithoutGroup ==
    /\ (out.op = "count_eager" /\ buf \in {<<>>, <<8, 1>>}) => ~out.panic /\ ~out.ok
    /\ (out.op = "count_eager" /\ buf = <<10, 0>>) => ~out.panic /\ out.ok

=============================================================================
